---- MODULE Spec2Model ----
(***************************************************************************)
(* Model of the ray-tracing renderer core of rust-raytracing:              *)
(*   - the per-frame protocol of Renderer::render (src/src/renderer.rs)    *)
(*     running against a GPU queue that retires submissions on its own     *)
(*     schedule, driven by the RedrawRequested arm of main's event loop    *)
(*     (src/src/main.rs);                                                  *)
(*   - the construction of the shader binding table in Renderer::new.      *)
(*                                                                         *)
(* SpecFrame is the render loop, SpecSBT the shader-binding-table setup.   *)
(* Each specification leaves the other part's variables at their initial   *)
(* values.                                                                 *)
(***************************************************************************)
EXTENDS Integers, Sequences, FiniteSets, TLC

VARIABLES
    \* ---- Renderer fields and the locals of one render call ----
    pc,                 \* position of the CPU inside render ("idle": between events)
    loop,               \* main's event loop: "running" | "exited"
    result,             \* what the last render call returned: "none" | "Ok" | "Err"
    current_frame,      \* Renderer.current_frame
    call_slot,          \* value of current_frame on entry to the running/last call
    acquire_result,     \* scrutinee of the match on acquire_next_image
    image_index,        \* swapchain image the running/last call acquired, -1: none
    present_result,     \* scrutinee of the match on queue_present
    failed,             \* the Vulkan call of this render call that reported a failure
    ops,                \* Vulkan calls performed so far by the running/last call
    \* ---- device objects ----
    in_flight_fences,   \* slot -> signaled?
    command_buffers,    \* slot -> "initial"|"recording"|"executable"|"pending"|"invalid"
    uniform_buffer,     \* number of the render call whose data the buffer holds
    gpu_queue,          \* submissions not yet retired, oldest first
    used,               \* slots of the frames that got past acquisition, oldest first
    image_available,    \* slot -> signals of image_available_semaphores[slot] not yet waited for
    render_finished,    \* slot -> signals of render_finished_semaphores[slot] not yet waited for
    present_queue,      \* presentation requests whose semaphore wait is still to come
    frame_log,          \* per frame past acquisition: the sync objects its calls named
    \* ---- shader binding table setup (Renderer::new, step 6) ----
    sbt_pc,             \* position inside the SBT construction
    handle_size,        \* the device's shaderGroupHandleSize
    handle_seed,        \* selects the handle bytes the driver returns
    sbt_addr,           \* device address of the SBT buffer
    handles,            \* bytes returned by get_ray_tracing_shader_group_handles
    sbt_data,           \* host copy of the SBT
    sbt_memory,         \* contents of the SBT buffer's memory
    sbt_regions,        \* the four StridedDeviceAddressRegionKHR
    \* ---- physical device selection (VulkanContext::new) ----
    dev_pc,             \* position inside the selection
    pdevices,           \* what enumerate_physical_devices returned, in order
    dev_i,              \* the device the scoring loop looks at next (1-based)
    scored_devices,     \* Vec of (pdevice, queue_idx, score)
    physical_device,    \* the selected device (position in pdevices), 0: none
    queue_family_index, \* the selected queue family, -1: none
    \* ---- one call of create_buffer_with_addr / create_image ----
    mem_pc,             \* position inside the constructor
    memory_types,       \* property flags of the device's memory types, in order
    request,            \* which constructor runs, and the properties it asks for
    type_filter,        \* mem_req.memory_type_bits
    mem_type_index,     \* what find_memory_type returned, -1: nothing yet
    allocated,          \* memory type the allocation came from, -1: none
    mem_error,          \* the Err the constructor returned, "none": none
    \* ---- acceleration structure setup (Renderer::new, steps 2 and 3) ----
    scene_pc,           \* position inside the setup
    scene_meshes,       \* scene.meshes: vertex and index count of each mesh
    scene_objects,      \* scene.objects: mesh_index and material_index of each
    blas_list,          \* the bottom-level structures built so far
    cur_v,              \* running vertex cursor of the BLAS loop
    cur_i,              \* running index cursor of the BLAS loop
    instances,          \* the TLAS instance records generated so far
    scene_error,        \* the call of the setup that failed, "none": none
    vertex_addr,        \* device address of the vertex buffer
    index_addr,         \* device address of the index buffer
    scene_descs,        \* the per-object descriptor records generated so far
    setup_queue,        \* builds submitted to the queue and not yet completed
    built,              \* handles of the structures whose build has completed
    \* ---- input state (Renderer fields, and the keyboard) ----
    settings,           \* Renderer.settings: the four feature toggles (x, y, z, w)
    camera,             \* Renderer.camera.position, in units of camera.speed
    held,               \* keys that are down
    events,             \* window events handled so far, with the settings after each
    \* ---- images (Renderer::new, step 4, and the commands render records) ----
    img_pc,             \* position inside the image setup
    capabilities,       \* get_physical_device_surface_capabilities
    window_size,        \* window.inner_size()
    extent,             \* the extent chosen for the storage image and the swapchain
    storage_image,      \* width and height the storage image was created with
    swapchain_extent,   \* image_extent the swapchain was created with
    recorded,           \* the commands of the frame recorded last
    storage_layout,     \* layout of the storage image
    swapchain_layouts   \* swapchain image -> its layout

frameVars == <<pc, loop, result, current_frame, call_slot, acquire_result,
               image_index, present_result, failed, ops, in_flight_fences,
               command_buffers, uniform_buffer, gpu_queue, used,
               image_available, render_finished, present_queue, frame_log>>
sbtVars == <<sbt_pc, handle_size, handle_seed, sbt_addr, handles, sbt_data,
             sbt_memory, sbt_regions>>
deviceVars == <<dev_pc, pdevices, dev_i, scored_devices, physical_device,
                queue_family_index>>
memVars == <<mem_pc, memory_types, request, type_filter, mem_type_index,
             allocated, mem_error>>
sceneVars == <<scene_pc, scene_meshes, scene_objects, blas_list, cur_v, cur_i,
               instances, scene_error, vertex_addr, index_addr, scene_descs,
               setup_queue, built>>
inputVars == <<settings, camera, held, events>>
imageVars == <<img_pc, capabilities, window_size, extent, storage_image,
               swapchain_extent, recorded>>
layoutVars == <<storage_layout, swapchain_layouts>>
vars == <<frameVars, sbtVars, deviceVars, memVars, sceneVars, inputVars,
          imageVars, layoutVars>>

\* What the actions of one part leave alone: the variables of the other parts.
notFrameVars == <<sbtVars, deviceVars, memVars, sceneVars, inputVars,
                  imageVars, layoutVars>>
notSbtVars == <<frameVars, deviceVars, memVars, sceneVars, inputVars,
                imageVars, layoutVars>>
notDeviceVars == <<frameVars, sbtVars, memVars, sceneVars, inputVars,
                   imageVars, layoutVars>>
notMemVars == <<frameVars, sbtVars, deviceVars, sceneVars, inputVars,
                imageVars, layoutVars>>
notSceneVars == <<frameVars, sbtVars, deviceVars, memVars, inputVars,
                  imageVars, layoutVars>>
notInputVars == <<frameVars, sbtVars, deviceVars, memVars, sceneVars>>
notImageVars == <<frameVars, sbtVars, deviceVars, memVars, sceneVars,
                  inputVars>>
notFrameLayoutVars == <<sbtVars, deviceVars, memVars, sceneVars, inputVars,
                        imageVars>>

(***************************************************************************)
(* Bounds of the model.                                                    *)
(***************************************************************************)
\* render calls that get past acquisition, per behaviour
MaxFrames == 4
\* the driver's handle bytes are drawn from seeds 0..MaxSeed
MaxSeed == 2
\* the SBT buffer is placed at one of the addresses k * 256, k in 1..MaxAddr
MaxAddr == 2
\* enumerate_physical_devices returns at most MaxDevices devices
MaxDevices == 2
\* a device has 1..MaxMemTypes memory types
MaxMemTypes == 3
\* a scene has 1..MaxMeshes meshes and 1..MaxObjects objects
MaxMeshes == 2
MaxObjects == 2
\* window events handled per behaviour
MaxEvents == 4

(***************************************************************************)
(* Program constants.                                                      *)
(***************************************************************************)
\* let max_frames = 2
max_frames == 2
Slots == 0 .. (max_frames - 1)
\* min_image_count: std::cmp::max(3, capabilities.min_image_count)
min_image_count == 3
Images == 0 .. (min_image_count - 1)

\* self.storage_image.0 and self.swapchain_images[image_index]
StorageImage == [kind |-> "storage", index |-> 0]
SwapchainImage(i) == [kind |-> "swapchain", index |-> i]

\* The commands render records between begin_command_buffer and
\* end_command_buffer for the acquired swapchain image: trace rays; barrier1
\* and barrier2_fix; the blit; barrier3 and barrier4.
FrameCommands(image) ==
    << [op |-> "trace_rays", stage |-> "RAY_TRACING_SHADER",
        width |-> 1280, height |-> 720, depth |-> 1],
       [op |-> "pipeline_barrier",
        src_stage |-> "RAY_TRACING_SHADER", dst_stage |-> "TRANSFER",
        barriers |-> << [image |-> StorageImage, old_layout |-> "GENERAL",
                         new_layout |-> "TRANSFER_SRC_OPTIMAL"],
                        [image |-> SwapchainImage(image), old_layout |-> "UNDEFINED",
                         new_layout |-> "TRANSFER_DST_OPTIMAL"] >>],
       [op |-> "blit_image", stage |-> "TRANSFER",
        src_image |-> StorageImage, src_layout |-> "TRANSFER_SRC_OPTIMAL",
        dst_image |-> SwapchainImage(image), dst_layout |-> "TRANSFER_DST_OPTIMAL",
        src_extent |-> <<1280, 720>>, dst_extent |-> <<1280, 720>>],
       [op |-> "pipeline_barrier",
        src_stage |-> "TRANSFER", dst_stage |-> "BOTTOM_OF_PIPE",
        barriers |-> << [image |-> SwapchainImage(image), old_layout |-> "TRANSFER_DST_OPTIMAL",
                         new_layout |-> "PRESENT_SRC_KHR"],
                        [image |-> StorageImage, old_layout |-> "TRANSFER_SRC_OPTIMAL",
                         new_layout |-> "GENERAL"] >>] >>

(***************************************************************************)
(* Frame orchestration: Renderer::new (sync objects) and Renderer::render. *)
(***************************************************************************)

\* Number (1-based) of the frame the running call is rendering, once it is
\* past acquisition: tags what the call writes into the uniform buffer.
CallNo == Len(used)

\* A `?` (or an Err(e) arm) inside render: render returns Err, and main's
\* RedrawRequested arm logs it and calls elwt.exit().
ReturnErr(call) ==
    /\ pc' = "idle"
    /\ result' = "Err"
    /\ failed' = call
    /\ loop' = "exited"

\* WindowEvent::RedrawRequested => renderer.render(&window): entry to render.
RedrawRequested ==
    /\ loop = "running"
    /\ pc = "idle"
    /\ Len(used) < MaxFrames
    /\ pc' = "wait_for_fences"
    /\ result' = "none"
    /\ call_slot' = current_frame
    /\ acquire_result' = "none"
    /\ present_result' = "none"
    /\ failed' = "none"
    /\ ops' = <<>>
    /\ UNCHANGED <<loop, current_frame, in_flight_fences, command_buffers,
                   uniform_buffer, gpu_queue, used, image_index, image_available, render_finished, present_queue, frame_log,
                   notFrameVars>>

\* wait_for_fences(&[in_flight_fences[current_frame]], true, u64::MAX)
\* returns once that fence is signaled.
WaitSatisfied_nowait == TRUE
WaitSatisfied == in_flight_fences[current_frame]

WaitForFences ==
    /\ pc = "wait_for_fences"
    /\ \E r \in {"ok", "err"} :
        IF r = "ok"
        THEN /\ WaitSatisfied
             /\ pc' = "acquire_next_image"
             /\ ops' = Append(ops, "wait_for_fences")
             /\ UNCHANGED <<result, failed, loop>>
        ELSE /\ ReturnErr("wait_for_fences")
             /\ UNCHANGED ops
    /\ UNCHANGED <<current_frame, call_slot, acquire_result, present_result,
                   in_flight_fences, command_buffers, uniform_buffer,
                   gpu_queue, used, image_index, image_available, render_finished, present_queue, frame_log,
                   notFrameVars>>

\* The three arms of the match on acquire_next_image.
AcquireArm_recording_when_out_of_date(r) ==
    IF r \in {"ok", "out_of_date"} THEN "continue" ELSE "return_err"
AcquireArm_no_abort(r) ==
    IF r = "ok" THEN "continue" ELSE "return_err"
AcquireArm(r) ==
    CASE r = "ok"          -> "continue"
      [] r = "out_of_date" -> "return_ok"
      [] OTHER             -> "return_err"

\* The images the presentation engine can hand out: those no frame still in
\* the queue renders to and no pending presentation request names (such an
\* image has not been presented yet).
AcquirableImages ==
    {i \in Images :
        /\ \A k \in 1 .. Len(gpu_queue) : gpu_queue[k].image # i
        /\ \A k \in 1 .. Len(present_queue) : present_queue[k].image # i}

\* A signal operation on a binary semaphore, and the wait that consumes it.
\* A second signal with the first not waited for is counted, not lost.
Signaled(semaphores, i) ==
    [semaphores EXCEPT ![i] = IF @ < 2 THEN @ + 1 ELSE @]
Waited(semaphores, i) == [semaphores EXCEPT ![i] = @ - 1]

\* acquire_next_image(swapchain, u64::MAX,
\*     image_available_semaphores[current_frame], Fence::null())
AcquireSemaphore == current_frame

AcquireNextImage ==
    /\ pc = "acquire_next_image"
    /\ \E r \in {"ok", "out_of_date", "err"} :
        /\ acquire_result' = r
        /\ ops' = Append(ops, "acquire_next_image")
        /\ CASE AcquireArm(r) = "continue" ->
                  /\ pc' = "reset_fences"
                  /\ used' = Append(used, current_frame)
                  /\ \E i \in AcquirableImages : image_index' = i
                  /\ image_available' = Signaled(image_available, AcquireSemaphore)
                  /\ frame_log' = Append(frame_log,
                                         [acquire_semaphore |-> AcquireSemaphore,
                                          image |-> image_index',
                                          submit_wait |-> -1, submit_signal |-> -1,
                                          submit_fence |-> -1,
                                          present_wait |-> -1, present_image |-> -1])
                  /\ UNCHANGED <<result, failed, loop>>
             [] AcquireArm(r) = "return_ok" ->
                  /\ pc' = "idle"
                  /\ result' = "Ok"
                  /\ UNCHANGED <<failed, loop, used, image_index,
                                 image_available, frame_log>>
             [] OTHER ->
                  /\ ReturnErr("acquire_next_image")
                  /\ UNCHANGED <<used, image_index, image_available, frame_log>>
    /\ UNCHANGED <<current_frame, call_slot, present_result, in_flight_fences,
                   command_buffers, uniform_buffer, gpu_queue, render_finished, present_queue,
                   notFrameVars>>

\* reset_fences(&[in_flight_fences[current_frame]])?
ResetFences ==
    /\ pc = "reset_fences"
    /\ \E r \in {"ok", "err"} :
        IF r = "ok"
        THEN /\ in_flight_fences' = [in_flight_fences EXCEPT ![current_frame] = FALSE]
             /\ pc' = "reset_command_buffer"
             /\ ops' = Append(ops, "reset_fences")
             /\ UNCHANGED <<result, failed, loop>>
        ELSE /\ ReturnErr("reset_fences")
             /\ UNCHANGED <<in_flight_fences, ops>>
    /\ UNCHANGED <<current_frame, call_slot, acquire_result, present_result,
                   command_buffers, uniform_buffer, gpu_queue, used, image_index, image_available, render_finished, present_queue, frame_log,
                   notFrameVars>>

\* let cmd_buffer = self.command_buffers[self.current_frame];
\* reset_command_buffer(cmd_buffer, empty())?
ResetCommandBuffer ==
    /\ pc = "reset_command_buffer"
    /\ \E r \in {"ok", "err"} :
        IF r = "ok"
        THEN /\ command_buffers' = [command_buffers EXCEPT ![current_frame] = "initial"]
             /\ pc' = "upload_data"
             /\ ops' = Append(ops, "reset_command_buffer")
             /\ UNCHANGED <<result, failed, loop>>
        ELSE /\ ReturnErr("reset_command_buffer")
             /\ UNCHANGED <<command_buffers, ops>>
    /\ UNCHANGED <<current_frame, call_slot, acquire_result, present_result,
                   in_flight_fences, uniform_buffer, gpu_queue, used, image_index, image_available, render_finished, present_queue, frame_log,
                   notFrameVars>>

\* upload_data(&self.ctx, self.uniform_buffer.1, &vec![ubo]):
\* map_memory(..).unwrap(), copy, unmap.  A failed map panics: the unwind
\* leaves render and the event loop without a return value.
UploadData ==
    /\ pc = "upload_data"
    /\ \E r \in {"ok", "err"} :
        IF r = "ok"
        THEN /\ uniform_buffer' = CallNo
             /\ pc' = "begin_command_buffer"
             /\ ops' = Append(ops, "upload_data")
             /\ UNCHANGED <<failed, loop>>
        ELSE /\ pc' = "panicked"
             /\ failed' = "map_memory"
             /\ loop' = "exited"
             /\ UNCHANGED <<uniform_buffer, ops>>
    /\ UNCHANGED <<result, current_frame, call_slot, acquire_result,
                   present_result, in_flight_fences, command_buffers,
                   gpu_queue, used, image_index, image_available, render_finished, present_queue, frame_log,
                   notFrameVars>>

\* begin_command_buffer(cmd_buffer, &begin_info)?
BeginCommandBuffer ==
    /\ pc = "begin_command_buffer"
    /\ \E r \in {"ok", "err"} :
        IF r = "ok"
        THEN /\ command_buffers' = [command_buffers EXCEPT ![current_frame] = "recording"]
             /\ pc' = "end_command_buffer"
             /\ ops' = Append(ops, "begin_command_buffer")
             /\ UNCHANGED <<result, failed, loop>>
        ELSE /\ ReturnErr("begin_command_buffer")
             /\ UNCHANGED <<command_buffers, ops>>
    /\ UNCHANGED <<current_frame, call_slot, acquire_result, present_result,
                   in_flight_fences, uniform_buffer, gpu_queue, used, image_index, image_available, render_finished, present_queue, frame_log,
                   notFrameVars>>

\* The cmd_* calls (bind, trace rays, barriers, blit) cannot fail and only
\* extend the recording; end_command_buffer(cmd_buffer)? closes it.
EndCommandBuffer ==
    /\ pc = "end_command_buffer"
    /\ \E r \in {"ok", "err"} :
        IF r = "ok"
        THEN /\ command_buffers' = [command_buffers EXCEPT ![current_frame] = "executable"]
             /\ pc' = "queue_submit"
             /\ ops' = Append(ops, "end_command_buffer")
             /\ UNCHANGED <<result, failed, loop>>
        ELSE /\ ReturnErr("end_command_buffer")
             /\ UNCHANGED <<command_buffers, ops>>
    /\ UNCHANGED <<current_frame, call_slot, acquire_result, present_result,
                   in_flight_fences, uniform_buffer, gpu_queue, used, image_index, image_available, render_finished, present_queue, frame_log,
                   notFrameVars>>

\* queue_submit(queue, &[submit_info], in_flight_fences[current_frame])?
\* The submission carries cmd_buffer and the fence it signals on completion.
\* `image` is the swapchain image its commands were recorded for, `done` the
\* number of its commands the GPU has executed.
\* `wait` and `signal` are the slots of the image-available semaphore the
\* submission waits on and of the render-finished semaphore it signals.
Submission_waiting_on_the_other_slot ==
    [cmd |-> current_frame, fence |-> current_frame, call |-> CallNo,
     phase |-> "queued", image |-> image_index, done |-> 0,
     wait |-> (current_frame + 1) % 2, signal |-> current_frame]
Submission ==
    [cmd |-> current_frame, fence |-> current_frame, call |-> CallNo,
     phase |-> "queued", image |-> image_index, done |-> 0,
     wait |-> current_frame, signal |-> current_frame]

QueueSubmit ==
    /\ pc = "queue_submit"
    /\ \E r \in {"ok", "err"} :
        IF r = "ok"
        THEN /\ gpu_queue' = Append(gpu_queue, Submission)
             /\ frame_log' = [frame_log EXCEPT ![CallNo] =
                                 [@ EXCEPT !.submit_wait = Submission.wait,
                                           !.submit_signal = Submission.signal,
                                           !.submit_fence = Submission.fence]]
             /\ command_buffers' = [command_buffers EXCEPT ![current_frame] = "pending"]
             /\ pc' = "queue_present"
             /\ ops' = Append(ops, "queue_submit")
             /\ UNCHANGED <<result, failed, loop>>
        ELSE /\ ReturnErr("queue_submit")
             /\ UNCHANGED <<gpu_queue, command_buffers, ops, frame_log>>
    /\ UNCHANGED <<current_frame, call_slot, acquire_result, present_result,
                   in_flight_fences, uniform_buffer, used, image_index, image_available, render_finished, present_queue,
                   notFrameVars>>

\* The match on queue_present: Ok and ERROR_OUT_OF_DATE_KHR fall through,
\* any other error returns it.
PresentFatal_out_of_date(r) == r \in {"out_of_date", "err"}
PresentFatal(r) == r = "err"

\* self.current_frame = (self.current_frame + 1) % 2;
NextFrame_stuck == current_frame
NextFrame == (current_frame + 1) % 2

\* let present_info = vk::PresentInfoKHR { p_wait_semaphores:
\*     &render_finished_semaphores[current_frame], p_image_indices: &image_index }
PresentInfo == [wait |-> current_frame, image |-> image_index, call |-> CallNo]

\* The request of a call that returned Ok or ERROR_OUT_OF_DATE_KHR is
\* enqueued, its semaphore wait with it.
QueuePresent ==
    /\ pc = "queue_present"
    /\ \E r \in {"ok", "out_of_date", "err"} :
        /\ present_result' = r
        /\ ops' = Append(ops, "queue_present")
        /\ IF r \in {"ok", "out_of_date"}
           THEN /\ present_queue' = Append(present_queue, PresentInfo)
                /\ frame_log' = [frame_log EXCEPT ![CallNo] =
                                    [@ EXCEPT !.present_wait = PresentInfo.wait,
                                              !.present_image = PresentInfo.image]]
           ELSE UNCHANGED <<present_queue, frame_log>>
        /\ IF PresentFatal(r)
           THEN /\ ReturnErr("queue_present")
                /\ UNCHANGED current_frame
           ELSE /\ current_frame' = NextFrame
                /\ pc' = "idle"
                /\ result' = "Ok"
                /\ UNCHANGED <<failed, loop>>
    /\ UNCHANGED <<call_slot, acquire_result, in_flight_fences, command_buffers,
                   uniform_buffer, gpu_queue, used, image_index, image_available, render_finished,
                   notFrameVars>>

(***************************************************************************)
(* The GPU.  Submissions to the one queue start in submission order, may   *)
(* overlap, execute their commands as the barriers allow, and retire in    *)
(* submission order.  A submission starts once the semaphore it waits on  *)
(* is signaled; retiring signals the fence given to queue_submit and the   *)
(* semaphore of the submission and, the buffer being ONE_TIME_SUBMIT,      *)
(* leaves the command buffer invalid.                                      *)
(***************************************************************************)
GpuStart ==
    /\ \E k \in 1 .. Len(gpu_queue) :
        /\ gpu_queue[k].phase = "queued"
        /\ \A j \in 1 .. (k - 1) : gpu_queue[j].phase = "executing"
        /\ image_available[gpu_queue[k].wait] > 0
        /\ image_available' = Waited(image_available, gpu_queue[k].wait)
        /\ gpu_queue' = [gpu_queue EXCEPT ![k].phase = "executing"]
    /\ UNCHANGED <<pc, loop, result, current_frame, call_slot, acquire_result,
                   present_result, failed, ops, in_flight_fences,
                   command_buffers, uniform_buffer, used, image_index, render_finished, present_queue, frame_log,
                   notFrameVars>>

\* The n-th command of the k-th submission in the queue.
CommandOf(k, n) == FrameCommands(gpu_queue[k].image)[n]
CommandCount(k) == Len(FrameCommands(gpu_queue[k].image))

\* Execution order on the queue.  Commands of different submissions, and of
\* one submission, are ordered only by pipeline barriers: a barrier waits for
\* every earlier command (in submission order) of its source stage and, as it
\* carries layout transitions, for every earlier barrier; a later command
\* waits for the barrier when its stage is the barrier's destination stage.
\* BOTTOM_OF_PIPE as destination makes no later command wait.
MustPrecede(e, c) ==
    IF c.op = "pipeline_barrier"
    THEN e.op = "pipeline_barrier" \/ e.stage = c.src_stage
    ELSE e.op = "pipeline_barrier" /\ e.dst_stage = c.stage
MayExecute(k, n) ==
    \A j \in 1 .. k : \A m \in 1 .. CommandCount(j) :
        ((j < k \/ m < n) /\ MustPrecede(CommandOf(j, m), CommandOf(k, n)))
            => m <= gpu_queue[j].done

\* The layouts after the image memory barriers of command c.
LayoutOf(img) ==
    IF img.kind = "storage" THEN storage_layout ELSE swapchain_layouts[img.index]
StorageLayoutAfter(c) ==
    IF \E b \in 1 .. Len(c.barriers) : c.barriers[b].image.kind = "storage"
    THEN LET b == CHOOSE b \in 1 .. Len(c.barriers) : c.barriers[b].image.kind = "storage"
         IN  c.barriers[b].new_layout
    ELSE storage_layout
SwapchainLayoutsAfter(c) ==
    [i \in Images |->
        IF \E b \in 1 .. Len(c.barriers) : c.barriers[b].image = SwapchainImage(i)
        THEN LET b == CHOOSE b \in 1 .. Len(c.barriers) :
                          c.barriers[b].image = SwapchainImage(i)
             IN  c.barriers[b].new_layout
        ELSE swapchain_layouts[i]]

\* The GPU executes the next command of a submission it has started.
GpuExecute ==
    /\ \E k \in 1 .. Len(gpu_queue) :
        /\ gpu_queue[k].phase = "executing"
        /\ gpu_queue[k].done < CommandCount(k)
        /\ MayExecute(k, gpu_queue[k].done + 1)
        /\ LET c == CommandOf(k, gpu_queue[k].done + 1)
           IN  IF c.op = "pipeline_barrier"
               THEN /\ storage_layout' = StorageLayoutAfter(c)
                    /\ swapchain_layouts' = SwapchainLayoutsAfter(c)
               ELSE UNCHANGED <<storage_layout, swapchain_layouts>>
        /\ gpu_queue' = [gpu_queue EXCEPT ![k].done = @ + 1]
    /\ UNCHANGED <<pc, loop, result, current_frame, call_slot, acquire_result,
                   image_index, present_result, failed, ops, in_flight_fences,
                   command_buffers, uniform_buffer, used, image_available, render_finished, present_queue, frame_log,
                   notFrameLayoutVars>>

\* The fences once submission sub has retired: the one given to its
\* queue_submit is signaled.
FencesAfter_none_signaled(sub) == in_flight_fences
FencesAfter(sub) == [in_flight_fences EXCEPT ![sub.fence] = TRUE]

\* The oldest submission retires once all its commands have executed.
GpuFinish ==
    /\ Len(gpu_queue) > 0
    /\ gpu_queue[1].phase = "executing"
    /\ gpu_queue[1].done = CommandCount(1)
    /\ in_flight_fences' = FencesAfter(gpu_queue[1])
    /\ render_finished' = Signaled(render_finished, gpu_queue[1].signal)
    /\ command_buffers' = [command_buffers EXCEPT ![gpu_queue[1].cmd] = "invalid"]
    /\ gpu_queue' = Tail(gpu_queue)
    /\ UNCHANGED <<pc, loop, result, current_frame, call_slot, acquire_result,
                   present_result, failed, ops, uniform_buffer, used, image_index, image_available, present_queue, frame_log,
                   notFrameVars>>

\* The presentation engine takes the oldest request: the wait on its
\* render-finished semaphore completes, and the image can be acquired again.
PresentWait ==
    /\ present_queue # <<>>
    /\ render_finished[Head(present_queue).wait] > 0
    /\ render_finished' = Waited(render_finished, Head(present_queue).wait)
    /\ present_queue' = Tail(present_queue)
    /\ UNCHANGED <<pc, loop, result, current_frame, call_slot, acquire_result,
                   image_index, present_result, failed, ops, in_flight_fences,
                   command_buffers, uniform_buffer, gpu_queue, used,
                   image_available, frame_log, notFrameVars>>

(***************************************************************************)
(* Shader binding table: Renderer::new, "6. SBT".                          *)
(***************************************************************************)
\* let group_count = shader_groups.len() as u32;   (four groups, in the order
\* generation, primary miss, closest hit, shadow miss)
group_count == 4
\* let prog_size = 32;
prog_size == 32
\* let sbt_size = (group_count * prog_size) as u64;
sbt_size == group_count * prog_size

\* Handle sizes a ray-tracing device may report (shaderGroupHandleSize).
HandleSizes == {16, 32, 64}
\* What an unwritten byte of the driver's output buffer may hold.
JunkBytes == {0, 255}
\* Addresses the allocator may give the SBT buffer.
SbtAddresses == {256 * k : k \in 1 .. MaxAddr}

\* Byte j (0-based) of the handle the device assigned to shader group g.
HandleByte(g, j) == (11 * handle_seed + 37 * g + j) % 256
DeviceHandle(g) == [j \in 1 .. handle_size |-> HandleByte(g, j - 1)]

\* s[from .. to) and dst[from .. to).copy_from_slice(src), 0-based as in Rust.
Slice(s, from, to) == [i \in 1 .. (to - from) |-> s[from + i]]
CopyFromSlice(dst, from, to, src) ==
    [i \in 1 .. Len(dst) |-> IF from < i /\ i <= to THEN src[i - from] ELSE dst[i]]

\* create_buffer_with_addr(&ctx, sbt_size, SHADER_BINDING_TABLE | .., HOST_VISIBLE | ..)?
CreateSbtBuffer ==
    /\ sbt_pc = "create_buffer"
    /\ \/ /\ \E a \in SbtAddresses : sbt_addr' = a
          /\ sbt_memory' = [i \in 1 .. sbt_size |-> 0]
          /\ sbt_pc' = "get_handles"
       \/ /\ sbt_pc' = "failed"
          /\ UNCHANGED <<sbt_addr, sbt_memory>>
    /\ UNCHANGED <<handle_size, handle_seed, handles, sbt_data, sbt_regions, notSbtVars>>

\* get_ray_tracing_shader_group_handles(pipeline, 0, group_count,
\*                                      group_count as usize * 32)?
\* The driver writes group_count handles of handle_size bytes each, packed,
\* into a buffer of data_size bytes; bytes it does not write are whatever the
\* allocation held.
HandlesDataSize == group_count * 32
DriverOutput(junk) ==
    [p \in 1 .. HandlesDataSize |->
        IF p - 1 < group_count * handle_size
        THEN HandleByte((p - 1) \div handle_size, (p - 1) % handle_size)
        ELSE junk]

\* With data_size smaller than group_count * handle_size the call is invalid
\* usage: the driver may reject it or fill what fits.
GetHandles ==
    /\ sbt_pc = "get_handles"
    /\ \/ /\ \E junk \in JunkBytes :
               /\ (group_count * handle_size >= HandlesDataSize) => junk = 0
               /\ handles' = DriverOutput(junk)
          /\ sbt_data' = [i \in 1 .. sbt_size |-> 0]
          /\ sbt_pc' = "copy_gen"
       \/ /\ sbt_pc' = "failed"
          /\ UNCHANGED <<handles, sbt_data>>
    /\ UNCHANGED <<handle_size, handle_seed, sbt_addr, sbt_memory, sbt_regions,
                   notSbtVars>>

\* sbt_data[0..32].copy_from_slice(&handles[0..32]);     // Gen (Group 0)
CopyGenData(d) == CopyFromSlice(d, 0, 32, Slice(handles, 0, 32))
\* sbt_data[32..64].copy_from_slice(&handles[32..64]);   // Miss 0 (Group 1)
CopyMiss0Data(d) == CopyFromSlice(d, 32, 64, Slice(handles, 32, 64))
\* sbt_data[64..96].copy_from_slice(&handles[96..128]);  // Miss 1 (Group 3 - Shadow)
CopyMiss1Data_in_group_order(d) == CopyFromSlice(d, 64, 96, Slice(handles, 64, 96))
CopyMiss1Data(d) == CopyFromSlice(d, 64, 96, Slice(handles, 96, 128))
\* sbt_data[96..128].copy_from_slice(&handles[64..96]);  // Hit (Group 2)
CopyHitData(d) == CopyFromSlice(d, 96, 128, Slice(handles, 64, 96))

CopyGen ==
    /\ sbt_pc = "copy_gen"
    /\ sbt_data' = CopyGenData(sbt_data)
    /\ sbt_pc' = "copy_miss0"
    /\ UNCHANGED <<handle_size, handle_seed, sbt_addr, handles, sbt_memory,
                   sbt_regions, notSbtVars>>

CopyMiss0 ==
    /\ sbt_pc = "copy_miss0"
    /\ sbt_data' = CopyMiss0Data(sbt_data)
    /\ sbt_pc' = "copy_miss1"
    /\ UNCHANGED <<handle_size, handle_seed, sbt_addr, handles, sbt_memory,
                   sbt_regions, notSbtVars>>

CopyMiss1 ==
    /\ sbt_pc = "copy_miss1"
    /\ sbt_data' = CopyMiss1Data(sbt_data)
    /\ sbt_pc' = "copy_hit"
    /\ UNCHANGED <<handle_size, handle_seed, sbt_addr, handles, sbt_memory,
                   sbt_regions, notSbtVars>>

CopyHit ==
    /\ sbt_pc = "copy_hit"
    /\ sbt_data' = CopyHitData(sbt_data)
    /\ sbt_pc' = "upload_data"
    /\ UNCHANGED <<handle_size, handle_seed, sbt_addr, handles, sbt_memory,
                   sbt_regions, notSbtVars>>

\* upload_data(&ctx, sbt_mem, &sbt_data): map_memory(..).unwrap(), copy, unmap.
UploadSbt ==
    /\ sbt_pc = "upload_data"
    /\ \/ /\ sbt_memory' = sbt_data
          /\ sbt_pc' = "regions"
       \/ /\ sbt_pc' = "panicked"
          /\ UNCHANGED sbt_memory
    /\ UNCHANGED <<handle_size, handle_seed, sbt_addr, handles, sbt_data,
                   sbt_regions, notSbtVars>>

\* let sbt_regions = [ Gen, Miss (2 shaders), Hit, (empty) ];
SbtRegionTable ==
    << [device_address |-> sbt_addr,      stride |-> 32, size |-> 32],
       [device_address |-> sbt_addr + 32, stride |-> 32, size |-> 64],
       [device_address |-> sbt_addr + 96, stride |-> 32, size |-> 32],
       [device_address |-> 0,             stride |-> 0,  size |-> 0] >>

MakeRegions ==
    /\ sbt_pc = "regions"
    /\ sbt_regions' = SbtRegionTable
    /\ sbt_pc' = "done"
    /\ UNCHANGED <<handle_size, handle_seed, sbt_addr, handles, sbt_data,
                   sbt_memory, notSbtVars>>

(***************************************************************************)
(* What trace-rays sees: record k (0-based) of region r (1 = generation,   *)
(* 2 = miss, 3 = hit, 4 = callable) is the handle_size bytes at            *)
(* device_address + k * stride.                                            *)
(***************************************************************************)
MemoryAt(addr, n) == [i \in 1 .. n |-> sbt_memory[addr - sbt_addr + i]]
RegionRecord(r, k) ==
    MemoryAt(sbt_regions[r].device_address + k * sbt_regions[r].stride, handle_size)
RegionBytes(r) ==
    {sbt_regions[r].device_address + o : o \in 0 .. (sbt_regions[r].size - 1)}
RegionRecords(r) ==
    IF sbt_regions[r].stride = 0 THEN 0
    ELSE sbt_regions[r].size \div sbt_regions[r].stride

(***************************************************************************)
(* Physical device selection: VulkanContext::new, "Score and select best   *)
(* device" (src/src/vulkan.rs).  Heap sizes are counted in MiB.            *)
(***************************************************************************)
\* heap.size / (1024 * 1024 * 1024), with sizes in MiB
GiB == 1024

\* let required_exts = [ .. ];
required_exts ==
    {"VK_KHR_swapchain", "VK_KHR_acceleration_structure",
     "VK_KHR_ray_tracing_pipeline", "VK_KHR_deferred_host_operations",
     "VK_KHR_buffer_device_address"}

\* Devices a Vulkan instance may report.  A queue family is its queue flags
\* and whether it can present to the surface; a heap is its size and flags.
DeviceTypes == {"DISCRETE_GPU", "INTEGRATED_GPU", "CPU"}
GoodFamily == [queue_flags |-> {"GRAPHICS", "COMPUTE", "TRANSFER"}, present |-> TRUE]
QueueLayouts ==
    { <<>>,
      << [queue_flags |-> {"GRAPHICS", "COMPUTE", "TRANSFER"}, present |-> FALSE] >>,
      << [queue_flags |-> {"GRAPHICS", "TRANSFER"}, present |-> TRUE] >>,
      << [queue_flags |-> {"COMPUTE", "TRANSFER"}, present |-> TRUE], GoodFamily >> }
HeapLayouts ==
    { << [size |-> 1 * GiB, flags |-> {"DEVICE_LOCAL"}] >>,
      << [size |-> GiB + GiB \div 2, flags |-> {"DEVICE_LOCAL"}],
         [size |-> GiB + GiB \div 2, flags |-> {"DEVICE_LOCAL"}] >>,
      << [size |-> 2 * GiB, flags |-> {"DEVICE_LOCAL"}],
         [size |-> 8 * GiB, flags |-> {}] >>,
      << [size |-> 1000 * GiB, flags |-> {"DEVICE_LOCAL"}] >> }
DeviceProfiles ==
    {[device_type |-> t, queue_families |-> <<GoodFamily>>,
      exts |-> required_exts \cup {"VK_KHR_maintenance1"}, heaps |-> h] :
        t \in DeviceTypes, h \in HeapLayouts}
    \cup
    {[device_type |-> "DISCRETE_GPU", queue_families |-> q,
      exts |-> required_exts, heaps |-> << [size |-> 4 * GiB, flags |-> {"DEVICE_LOCAL"}] >>] :
        q \in QueueLayouts}
    \cup
    {[device_type |-> "DISCRETE_GPU", queue_families |-> <<GoodFamily>>,
      exts |-> required_exts \ {e}, heaps |-> << [size |-> 4 * GiB, flags |-> {"DEVICE_LOCAL"}] >>] :
        e \in required_exts}
RECURSIVE DeviceLists(_)
DeviceLists(n) ==
    IF n = 0 THEN { <<>> }
    ELSE DeviceLists(n - 1) \cup
         {Append(l, d) : l \in {m \in DeviceLists(n - 1) : Len(m) = n - 1},
                         d \in DeviceProfiles}

\* queue_families.iter().enumerate().find_map(..): the first family (0-based)
\* whose flags contain GRAPHICS | COMPUTE and that can present, -1 for None.
FamilySuits(q) == {"GRAPHICS", "COMPUTE"} \subseteq q.queue_flags /\ q.present
q_index(d) ==
    LET suiting == {i \in 1 .. Len(d.queue_families) : FamilySuits(d.queue_families[i])}
    IN  IF suiting = {} THEN -1
        ELSE (CHOOSE i \in suiting : \A j \in suiting : i <= j) - 1

\* required_exts.iter().all(|required| available_exts.iter().any(..))
has_all_exts_ray_tracing_only(d) ==
    {"VK_KHR_ray_tracing_pipeline", "VK_KHR_acceleration_structure"} \subseteq d.exts
has_all_exts(d) == \A required \in required_exts : \E ext \in d.exts : ext = required

\* match props.device_type { DISCRETE_GPU => 1000, INTEGRATED_GPU => 500, _ => 100 }
ClassWeight(t) ==
    CASE t = "DISCRETE_GPU"   -> 1000
      [] t = "INTEGRATED_GPU" -> 500
      [] OTHER                -> 100

\* for i in 0..memory_heap_count { if DEVICE_LOCAL { score += heap.size / GiB } }
RECURSIVE HeapScore(_)
HeapScore(heaps) ==
    IF heaps = <<>> THEN 0
    ELSE (IF "DEVICE_LOCAL" \in Head(heaps).flags THEN Head(heaps).size \div GiB ELSE 0)
         + HeapScore(Tail(heaps))
Score(d) == ClassWeight(d.device_type) + HeapScore(d.heaps)

\* One iteration of `for pdevice in pdevices.iter()`.
ScoreDevice ==
    /\ dev_pc = "score"
    /\ dev_i <= Len(pdevices)
    /\ LET d == pdevices[dev_i]
       IN  IF q_index(d) # -1 /\ has_all_exts(d)
           THEN scored_devices' =
                    Append(scored_devices,
                           [pdevice |-> dev_i, queue_idx |-> q_index(d), score |-> Score(d)])
           ELSE UNCHANGED scored_devices
    /\ dev_i' = dev_i + 1
    /\ UNCHANGED <<dev_pc, pdevices, physical_device, queue_family_index, notDeviceVars>>

\* scored_devices.sort_by(|a, b| b.2.cmp(&a.2)): a stable sort, highest score
\* first, devices of equal score staying in the order they were pushed.
InsertByScore_before_equal_scores(s, x) ==
    LET before == {i \in 1 .. Len(s) : s[i].score > x.score}
    IN  [i \in 1 .. (Len(s) + 1) |->
            IF i <= Cardinality(before) THEN s[i]
            ELSE IF i = Cardinality(before) + 1 THEN x
            ELSE s[i - 1]]
InsertByScore(s, x) ==
    LET before == {i \in 1 .. Len(s) : s[i].score >= x.score}
    IN  [i \in 1 .. (Len(s) + 1) |->
            IF i <= Cardinality(before) THEN s[i]
            ELSE IF i = Cardinality(before) + 1 THEN x
            ELSE s[i - 1]]
RECURSIVE SortByScore(_)
SortByScore(s) ==
    IF s = <<>> THEN <<>>
    ELSE InsertByScore(SortByScore(SubSeq(s, 1, Len(s) - 1)), s[Len(s)])

\* if scored_devices.is_empty() { return Err("No suitable GPU found ..") }
\* sort; (physical_device, queue_family_index) = (scored_devices[0].0, .1)
SelectDevice ==
    /\ dev_pc = "score"
    /\ dev_i > Len(pdevices)
    /\ IF scored_devices = <<>>
       THEN /\ dev_pc' = "no_suitable_gpu"
            /\ UNCHANGED <<scored_devices, physical_device, queue_family_index>>
       ELSE /\ scored_devices' = SortByScore(scored_devices)
            /\ physical_device' = scored_devices'[1].pdevice
            /\ queue_family_index' = scored_devices'[1].queue_idx
            /\ dev_pc' = "selected"
    /\ UNCHANGED <<pdevices, dev_i, notDeviceVars>>

(***************************************************************************)
(* Memory type selection and the two resource constructors:               *)
(* find_memory_type, create_buffer_with_addr, create_image.                *)
(***************************************************************************)
\* Property flags a memory type of the device may carry.
MemoryTypeFlags ==
    { {},
      {"DEVICE_LOCAL"},
      {"HOST_VISIBLE"},
      {"HOST_VISIBLE", "HOST_COHERENT"},
      {"DEVICE_LOCAL", "HOST_VISIBLE", "HOST_COHERENT"} }
RECURSIVE MemoryTypeLists(_)
MemoryTypeLists(n) ==
    IF n = 0 THEN { <<>> }
    ELSE {Append(l, f) : l \in MemoryTypeLists(n - 1), f \in MemoryTypeFlags}

\* The constructors and the properties they ask for: create_buffer_with_addr
\* is called with DEVICE_LOCAL or HOST_VISIBLE | HOST_COHERENT, create_image
\* always asks for DEVICE_LOCAL.
Requests ==
    { [resource |-> "buffer", properties |-> {"DEVICE_LOCAL"}],
      [resource |-> "buffer", properties |-> {"HOST_VISIBLE", "HOST_COHERENT"}],
      [resource |-> "image",  properties |-> {"DEVICE_LOCAL"}] }

RECURSIVE Pow2(_)
Pow2(n) == IF n = 0 THEN 1 ELSE 2 * Pow2(n - 1)
memory_type_count == Len(memory_types)

\* (type_filter & (1 << i)) != 0
\*   && (memory_types[i].property_flags & properties) == properties
TypeMatches_ignoring_filter(i, filter, properties) ==
    (memory_types[i + 1] \cap properties) = properties
TypeMatches(i, filter, properties) ==
    /\ (filter \div Pow2(i)) % 2 # 0
    /\ (memory_types[i + 1] \cap properties) = properties

\* for i in 0..memory_type_count { if .. { return Ok(i) } }  Err(..)
\* The result is the index, or -1 for the Err.
NoneFound_first_type == IF memory_type_count > 0 THEN 0 ELSE -1
NoneFound == -1
RECURSIVE FindFrom(_, _, _)
FindFrom(i, filter, properties) ==
    IF i >= memory_type_count THEN NoneFound
    ELSE IF TypeMatches(i, filter, properties) THEN i
    ELSE FindFrom(i + 1, filter, properties)
find_memory_type(filter, properties) == FindFrom(0, filter, properties)

\* create_buffer(..)? / create_image(..)?, then get_*_memory_requirements:
\* the driver reports in memory_type_bits which of its types the resource
\* may live in (at least one).
CreateResource ==
    /\ mem_pc = "create"
    /\ \/ /\ \E bits \in 1 .. (Pow2(memory_type_count) - 1) : type_filter' = bits
          /\ mem_pc' = "find_memory_type"
          /\ UNCHANGED mem_error
       \/ /\ mem_pc' = "failed"
          /\ mem_error' = "create"
          /\ UNCHANGED type_filter
    /\ UNCHANGED <<memory_types, request, mem_type_index, allocated, notMemVars>>

\* let mem_type_index = find_memory_type(ctx, mem_req.memory_type_bits, props)?;
FindMemoryType ==
    /\ mem_pc = "find_memory_type"
    /\ LET r == find_memory_type(type_filter, request.properties)
       IN  IF r = -1
           THEN /\ mem_pc' = "failed"
                /\ mem_error' = "Failed to find suitable memory type"
                /\ UNCHANGED mem_type_index
           ELSE /\ mem_pc' = "allocate_memory"
                /\ mem_type_index' = r
                /\ UNCHANGED mem_error
    /\ UNCHANGED <<memory_types, request, type_filter, allocated, notMemVars>>

\* match allocate_memory(&alloc_info) { Ok(m) => m, Err(e) => return Err(..) }
\* with alloc_info.memory_type_index = mem_type_index.
AllocateMemory ==
    /\ mem_pc = "allocate_memory"
    /\ \/ /\ allocated' = mem_type_index
          /\ mem_pc' = "bind_memory"
          /\ UNCHANGED mem_error
       \/ /\ mem_pc' = "failed"
          /\ mem_error' = "allocation failed"
          /\ UNCHANGED allocated
    /\ UNCHANGED <<memory_types, request, type_filter, mem_type_index, notMemVars>>

\* bind_buffer_memory(buffer, memory, 0)? / bind_image_memory(image, memory, 0)?
BindMemory ==
    /\ mem_pc = "bind_memory"
    /\ \/ /\ mem_pc' = "created"
          /\ UNCHANGED mem_error
       \/ /\ mem_pc' = "failed"
          /\ mem_error' = "bind"
    /\ UNCHANGED <<memory_types, request, type_filter, mem_type_index, allocated,
                   notMemVars>>

(***************************************************************************)
(* Scene setup: Renderer::new, "1. Create Buffers (Scene)", "2. BLAS" and  *)
(* "3. TLAS", with the queue the single-time commands are submitted to,    *)
(* and main's handling of a failed Renderer::new.                          *)
(***************************************************************************)
\* size_of::<Vertex>(): pos, nrm, color, three f32 each
VertexSize == 36
\* size_of::<u32>()
IndexSize == 4

\* glam::Mat4: four column vectors.  The translation by (3, 5, 7), and an
\* affine matrix whose element at row r, column c is 10 * (r + 1) + (c + 1).
Translation ==
    [x_axis |-> <<1, 0, 0, 0>>, y_axis |-> <<0, 1, 0, 0>>,
     z_axis |-> <<0, 0, 1, 0>>, w_axis |-> <<3, 5, 7, 1>>]
Affine ==
    [x_axis |-> <<11, 21, 31, 0>>, y_axis |-> <<12, 22, 32, 0>>,
     z_axis |-> <<13, 23, 33, 0>>, w_axis |-> <<14, 24, 34, 1>>]

\* Meshes (their vertex and index counts) and objects a scene may hold.  An
\* object names its mesh and its material by position.
MeshShapes == {[vertices |-> 24, indices |-> 36], [vertices |-> 4, indices |-> 6]}
\* The transform and material an object may come with.
Placements ==
    { [transform |-> Translation, material_index |-> 0],
      [transform |-> Affine, material_index |-> 8],
      [transform |-> Affine, material_index |-> 256],
      [transform |-> Translation, material_index |-> 16777221] }
RECURSIVE MeshLists(_)
MeshLists(n) ==
    IF n = 0 THEN { <<>> }
    ELSE {Append(l, m) : l \in MeshLists(n - 1), m \in MeshShapes}
RECURSIVE ObjectLists(_, _)
ObjectLists(n, mesh_count) ==
    IF n = 0 THEN { <<>> }
    ELSE {Append(l, [mesh_index |-> m, transform |-> p.transform,
                     material_index |-> p.material_index]) :
             l \in ObjectLists(n - 1, mesh_count),
             m \in 0 .. (mesh_count - 1), p \in Placements}

\* Device addresses create_buffer_with_addr may return for the vertex and the
\* index buffer.
SceneBufferAddresses == { <<4096, 1048576>>, <<2097152, 8192>> }

\* A `?` inside Renderer::new returns the error; an unwrap() on an Err panics.
SetupErr(call) ==
    /\ scene_pc' = "failed"
    /\ scene_error' = call
SetupPanic(call) ==
    /\ scene_pc' = "panicked"
    /\ scene_error' = call

\* The three create_buffer_with_addr(..)? for vertices, indices, materials.
CreateSceneBuffers ==
    /\ scene_pc = "create_scene_buffers"
    /\ \/ /\ \E a \in SceneBufferAddresses :
                /\ vertex_addr' = a[1]
                /\ index_addr' = a[2]
          /\ scene_pc' = "upload_scene"
          /\ UNCHANGED scene_error
       \/ /\ SetupErr("create_buffer_with_addr")
          /\ UNCHANGED <<vertex_addr, index_addr>>
    /\ UNCHANGED <<scene_meshes, scene_objects, scene_descs, blas_list, cur_v,
                   cur_i, instances, setup_queue, built, notSceneVars>>

\* upload_data for vertices, indices and materials: map_memory(..).unwrap()
UploadScene ==
    /\ scene_pc = "upload_scene"
    /\ \/ /\ scene_pc' = "create_scene_desc_buffer"
          /\ UNCHANGED scene_error
       \/ SetupPanic("map_memory")
    /\ UNCHANGED <<scene_meshes, scene_objects, vertex_addr, index_addr,
                   scene_descs, blas_list, cur_v, cur_i, instances, setup_queue,
                   built, notSceneVars>>

\* let (scene_desc_buffer, scene_desc_mem, _) = create_buffer_with_addr(..)?
CreateSceneDescBuffer ==
    /\ scene_pc = "create_scene_desc_buffer"
    /\ \/ /\ scene_pc' = "scene_descs"
          /\ UNCHANGED scene_error
       \/ SetupErr("create_buffer_with_addr")
    /\ UNCHANGED <<scene_meshes, scene_objects, vertex_addr, index_addr,
                   scene_descs, blas_list, cur_v, cur_i, instances, setup_queue,
                   built, notSceneVars>>

\* for (idx, mesh) in scene.meshes.iter().enumerate() {
\*     if idx == obj.mesh_index { break; }
\*     v_off += mesh.vertices.len(); i_off += mesh.indices.len(); }
\* from position idx (0-based) on, with the offsets summed so far.
RECURSIVE ScanOffsets(_, _, _, _)
ScanOffsets(idx, v_off, i_off, mesh_index) ==
    IF idx >= Len(scene_meshes) \/ idx = mesh_index
    THEN [v_off |-> v_off, i_off |-> i_off]
    ELSE ScanOffsets(idx + 1, v_off + scene_meshes[idx + 1].vertices,
                     i_off + scene_meshes[idx + 1].indices, mesh_index)

\* scene_descs.push(SceneDesc { vertex_addr: .., index_addr: .., material_addr })
SceneDescOf_no_offsets(obj) ==
    [vertex_addr |-> vertex_addr + 0 * VertexSize,
     index_addr |-> index_addr + 0 * IndexSize]
SceneDescOf(obj) ==
    LET off == ScanOffsets(0, 0, 0, obj.mesh_index)
    IN  [vertex_addr |-> vertex_addr + off.v_off * VertexSize,
         index_addr |-> index_addr + off.i_off * IndexSize]

\* One iteration of `for obj in &scene.objects`.
MakeSceneDesc ==
    /\ scene_pc = "scene_descs"
    /\ Len(scene_descs) < Len(scene_objects)
    /\ scene_descs' = Append(scene_descs, SceneDescOf(scene_objects[Len(scene_descs) + 1]))
    /\ UNCHANGED <<scene_pc, scene_error, scene_meshes, scene_objects,
                   vertex_addr, index_addr, blas_list, cur_v, cur_i, instances,
                   setup_queue, built, notSceneVars>>

\* upload_data(&ctx, scene_desc_mem, &scene_descs)
UploadSceneDescs ==
    /\ scene_pc = "scene_descs"
    /\ Len(scene_descs) = Len(scene_objects)
    /\ \/ /\ scene_pc' = "build"
          /\ UNCHANGED scene_error
       \/ SetupPanic("map_memory")
    /\ UNCHANGED <<scene_meshes, scene_objects, vertex_addr, index_addr,
                   scene_descs, blas_list, cur_v, cur_i, instances, setup_queue,
                   built, notSceneVars>>

\* get_acceleration_structure_device_address: the address the device gave the
\* structure with handle h (the h-th it created).
AccelerationStructureDeviceAddress(h) == 65536 * h

\* The structure the running iteration of `for mesh in &scene.meshes` creates,
\* with the geometry its build reads at the running cursors.
BlasEntry ==
    LET mesh == scene_meshes[Len(blas_list) + 1]
    IN  [accel_struct |-> Len(blas_list) + 1,
         mesh |-> Len(blas_list),
         vertex_data |-> vertex_addr + cur_v * VertexSize,
         index_data |-> index_addr + cur_i * IndexSize,
         max_vertex |-> mesh.vertices,
         primitive_count |-> mesh.indices \div 3]

\* One iteration of `for mesh in &scene.meshes` up to the submission inside
\* end_single_time_command: the structure and its scratch buffer are created
\* (`?`), the build is recorded into setup_cmd_buffer and submitted (unwrap).
BuildBlas ==
    /\ scene_pc = "build"
    /\ Len(blas_list) < Len(scene_meshes)
    /\ \/ /\ setup_queue' = Append(setup_queue,
                                   [ty |-> "BOTTOM_LEVEL",
                                    dst |-> BlasEntry.accel_struct,
                                    primitive_count |-> BlasEntry.primitive_count])
          /\ scene_pc' = "blas_wait_idle"
          /\ UNCHANGED scene_error
       \/ /\ \E call \in {"create_buffer_with_addr", "create_acceleration_structure"} :
                SetupErr(call)
          /\ UNCHANGED setup_queue
       \/ /\ \E call \in {"begin_command_buffer", "end_command_buffer", "queue_submit"} :
                SetupPanic(call)
          /\ UNCHANGED setup_queue
    /\ UNCHANGED <<scene_meshes, scene_objects, vertex_addr, index_addr,
                   scene_descs, blas_list, cur_v, cur_i, instances, built,
                   notSceneVars>>

\* The GPU completes the oldest build submitted to the queue.
GpuBuild ==
    /\ setup_queue # <<>>
    /\ built' = built \cup {Head(setup_queue).dst}
    /\ setup_queue' = Tail(setup_queue)
    /\ UNCHANGED <<scene_pc, scene_error, scene_meshes, scene_objects,
                   vertex_addr, index_addr, scene_descs, blas_list, cur_v,
                   cur_i, instances, notSceneVars>>

\* queue_wait_idle(queue) returns once the queue has nothing left to execute.
QueueIdle_without_waiting == TRUE
QueueIdle == setup_queue = <<>>

\* The rest of the iteration: queue_wait_idle(queue).unwrap() returns, the
\* scratch buffer is destroyed, the structure pushed, the cursors advanced.
BlasWaitIdle ==
    /\ scene_pc = "blas_wait_idle"
    /\ \/ /\ QueueIdle
          /\ blas_list' = Append(blas_list, BlasEntry)
          /\ cur_v' = cur_v + scene_meshes[Len(blas_list) + 1].vertices
          /\ cur_i' = cur_i + scene_meshes[Len(blas_list) + 1].indices
          /\ scene_pc' = "build"
          /\ UNCHANGED scene_error
       \/ /\ SetupPanic("queue_wait_idle")
          /\ UNCHANGED <<blas_list, cur_v, cur_i>>
    /\ UNCHANGED <<scene_meshes, scene_objects, vertex_addr, index_addr,
                   scene_descs, instances, setup_queue, built, notSceneVars>>

\* vk::Packed24_8::new(low_24, high_8): (low_24 & 0x00ff_ffff) | (high_8 << 24),
\* kept as its two bit fields.
Packed24_8(low_24, high_8) ==
    [low_24 |-> low_24 % 16777216, high_8 |-> high_8 % 256]

\* blas_list[obj.mesh_index]
BlasOf_first(obj) == blas_list[1]
BlasOf(obj) == blas_list[obj.mesh_index + 1]

\* Mat4::to_cols_array_2d(): [[f32; 4]; 4], one inner array per column.
to_cols_array_2d(m) ==
    LET cols == <<m.x_axis, m.y_axis, m.z_axis, m.w_axis>>
    IN  [c \in 0 .. 3 |-> [r \in 0 .. 3 |-> cols[c + 1][r + 1]]]

\* vk::TransformMatrixKHR { matrix: [ transform[0][0], transform[1][0], .. ] }
vk_transform_untransposed(m) ==
    LET transform == to_cols_array_2d(m)
    IN  << transform[0][0], transform[0][1], transform[0][2], transform[0][3],
           transform[1][0], transform[1][1], transform[1][2], transform[1][3],
           transform[2][0], transform[2][1], transform[2][2], transform[2][3] >>
vk_transform(m) ==
    LET transform == to_cols_array_2d(m)
    IN  << transform[0][0], transform[1][0], transform[2][0], transform[3][0],
           transform[0][1], transform[1][1], transform[2][1], transform[3][1],
           transform[0][2], transform[1][2], transform[2][2], transform[3][2] >>

\* let instance = vk::AccelerationStructureInstanceKHR { .. }
InstanceRecord(obj) ==
    [transform |-> vk_transform(obj.transform),
     instance_custom_index_and_mask |-> Packed24_8(obj.material_index, 255),
     instance_shader_binding_table_record_offset_and_flags |-> Packed24_8(0, 1),
     acceleration_structure_reference |->
         AccelerationStructureDeviceAddress(BlasOf(obj).accel_struct)]

\* One iteration of `for (_i, obj) in scene.objects.iter().enumerate()`.
MakeInstance ==
    /\ scene_pc = "build"
    /\ Len(blas_list) = Len(scene_meshes)
    /\ Len(instances) < Len(scene_objects)
    /\ instances' = Append(instances, InstanceRecord(scene_objects[Len(instances) + 1]))
    /\ UNCHANGED <<scene_pc, scene_error, scene_meshes, scene_objects,
                   vertex_addr, index_addr, scene_descs, blas_list, cur_v,
                   cur_i, setup_queue, built, notSceneVars>>

\* let (inst_buf, inst_mem, inst_addr) = create_buffer_with_addr(..)?;
\* upload_data(&ctx, inst_mem, &instances);
UploadInstances ==
    /\ scene_pc = "build"
    /\ Len(blas_list) = Len(scene_meshes)
    /\ Len(instances) = Len(scene_objects)
    /\ \/ /\ scene_pc' = "tlas"
          /\ UNCHANGED scene_error
       \/ SetupErr("create_buffer_with_addr")
       \/ SetupPanic("map_memory")
    /\ UNCHANGED <<scene_meshes, scene_objects, vertex_addr, index_addr,
                   scene_descs, blas_list, cur_v, cur_i, instances, setup_queue,
                   built, notSceneVars>>

\* The top-level structure and its scratch buffer are created (`?`), its
\* build over the instance buffer is recorded and submitted (unwrap).
BuildTlas ==
    /\ scene_pc = "tlas"
    /\ \/ /\ setup_queue' = Append(setup_queue,
                                   [ty |-> "TOP_LEVEL",
                                    dst |-> Len(blas_list) + 1,
                                    primitive_count |-> Len(instances)])
          /\ scene_pc' = "tlas_wait_idle"
          /\ UNCHANGED scene_error
       \/ /\ \E call \in {"create_buffer_with_addr", "create_acceleration_structure"} :
                SetupErr(call)
          /\ UNCHANGED setup_queue
       \/ /\ \E call \in {"begin_command_buffer", "end_command_buffer", "queue_submit"} :
                SetupPanic(call)
          /\ UNCHANGED setup_queue
    /\ UNCHANGED <<scene_meshes, scene_objects, vertex_addr, index_addr,
                   scene_descs, blas_list, cur_v, cur_i, instances, built,
                   notSceneVars>>

\* queue_wait_idle(queue).unwrap() at the end of the TLAS build.
TlasWaitIdle ==
    /\ scene_pc = "tlas_wait_idle"
    /\ \/ /\ QueueIdle
          /\ scene_pc' = "built"
          /\ UNCHANGED scene_error
       \/ SetupPanic("queue_wait_idle")
    /\ UNCHANGED <<scene_meshes, scene_objects, vertex_addr, index_addr,
                   scene_descs, blas_list, cur_v, cur_i, instances, setup_queue,
                   built, notSceneVars>>

\* main: Err(e) => { log::error!("Failed to initialize renderer: {}", e); ..
\* return Err(e); }
MainReturnsErr ==
    /\ scene_pc = "failed"
    /\ scene_pc' = "main_returned_err"
    /\ UNCHANGED <<scene_error, scene_meshes, scene_objects, vertex_addr,
                   index_addr, scene_descs, blas_list, cur_v, cur_i, instances,
                   setup_queue, built, notSceneVars>>

(***************************************************************************)
(* Window events other than RedrawRequested: main's KeyboardInput and      *)
(* Resized arms, Renderer::handle_input, Camera::handle_input and          *)
(* Renderer::resize.                                                       *)
(***************************************************************************)
\* Keys of the keyboard: the four toggles, the six camera keys, one other.
ToggleKeys == {"Digit1", "Digit2", "Digit3", "Digit4"}
Keys == ToggleKeys \cup {"KeyW", "KeyS", "KeyA", "KeyD", "KeyQ", "KeyE", "Escape"}
\* Sizes a Resized event may carry.
WindowSizes == { <<1280, 720>>, <<800, 600>> }

\* Camera::handle_input(key): position moves by speed along forward (0, 0, -1),
\* right (1, 0, 0) or Y.  Positions are counted in units of speed.
CameraHandleInput(key) ==
    CASE key = "KeyW" -> [camera EXCEPT ![3] = @ - 1]
      [] key = "KeyS" -> [camera EXCEPT ![3] = @ + 1]
      [] key = "KeyA" -> [camera EXCEPT ![1] = @ - 1]
      [] key = "KeyD" -> [camera EXCEPT ![1] = @ + 1]
      [] key = "KeyQ" -> [camera EXCEPT ![2] = @ + 1]
      [] key = "KeyE" -> [camera EXCEPT ![2] = @ - 1]
      [] OTHER        -> camera

\* match key { Digit1 => settings.x = 1.0 - settings.x, .. , _ => {} }
ToggleSettings_set_to_zero(key) ==
    CASE key = "Digit1" -> [settings EXCEPT ![1] = 0]
      [] key = "Digit2" -> [settings EXCEPT ![2] = 0]
      [] key = "Digit3" -> [settings EXCEPT ![3] = 0]
      [] key = "Digit4" -> [settings EXCEPT ![4] = 0]
      [] OTHER          -> settings
ToggleSettings(key) ==
    CASE key = "Digit1" -> [settings EXCEPT ![1] = 1 - @]
      [] key = "Digit2" -> [settings EXCEPT ![2] = 1 - @]
      [] key = "Digit3" -> [settings EXCEPT ![3] = 1 - @]
      [] key = "Digit4" -> [settings EXCEPT ![4] = 1 - @]
      [] OTHER          -> settings

\* Renderer::handle_input(key, state)
handle_input_whatever_the_state(key, state) ==
    /\ camera' = CameraHandleInput(key)
    /\ settings' = ToggleSettings(key)
handle_input(key, state) ==
    IF state = "Pressed"
    THEN /\ camera' = CameraHandleInput(key)
         /\ settings' = ToggleSettings(key)
    ELSE UNCHANGED <<camera, settings>>

\* WindowEvent::KeyboardInput { event: KeyEvent { physical_key, state, .. }, .. }
\*     => renderer.handle_input(key, state)
\* The pattern drops the other fields of KeyEvent, `repeat` among them.
KeyboardInput(key, state, repeat) ==
    /\ Len(events) < MaxEvents
    /\ handle_input(key, state)
    /\ events' = Append(events, [event |-> "KeyboardInput", key |-> key,
                                 state |-> state, repeat |-> repeat,
                                 size |-> <<0, 0>>, settings |-> settings'])
    /\ UNCHANGED <<imageVars, layoutVars, notInputVars>>

\* The key goes down: a Pressed event, repeat = false.
KeyPressed ==
    \E key \in Keys \ held :
        /\ KeyboardInput(key, "Pressed", FALSE)
        /\ held' = held \cup {key}

\* The key stays down: the window system repeats the Pressed event,
\* repeat = true.
KeyRepeated ==
    \E key \in held :
        /\ KeyboardInput(key, "Pressed", TRUE)
        /\ UNCHANGED held

\* The key goes up: a Released event.
KeyReleased ==
    \E key \in held :
        /\ KeyboardInput(key, "Released", FALSE)
        /\ held' = held \ {key}

\* Renderer::resize(_width, _height): the body is empty.
resize_recreating(width, height) ==
    /\ extent' = <<width, height>>
    /\ storage_image' = <<width, height>>
    /\ swapchain_extent' = <<width, height>>
    /\ UNCHANGED <<settings, camera, img_pc, capabilities, window_size,
                   recorded, layoutVars, notInputVars>>
resize(width, height) ==
    UNCHANGED <<settings, camera, imageVars, layoutVars, notInputVars>>

\* WindowEvent::Resized(size) => renderer.resize(size.width, size.height)
Resized ==
    /\ Len(events) < MaxEvents
    /\ \E size \in WindowSizes :
        /\ resize(size[1], size[2])
        /\ events' = Append(events, [event |-> "Resized", key |-> "none",
                                     state |-> "none", repeat |-> FALSE,
                                     size |-> size, settings |-> settings'])
    /\ UNCHANGED held

(***************************************************************************)
(* Images: Renderer::new, "4. Images & Swapchain", and the commands that   *)
(* Renderer::render records for a frame.                                   *)
(***************************************************************************)
\* u32::MAX, the width of an undefined current_extent (stands for 0xFFFFFFFF)
U32_MAX == 2147483647

\* What the surface and the window may report.  A window created with a
\* logical size of 1280 x 720 has, in pixels, that size times its scale factor.
SurfaceExtents ==
    { <<U32_MAX, U32_MAX>>, <<1280, 720>>, <<2560, 1440>>, <<800, 600>>, <<0, 0>> }
InnerSizes == { <<1280, 720>>, <<2560, 1440>>, <<5000, 300>>, <<0, 0>> }
MinImageExtents == { <<1, 1>>, <<640, 480>> }
MaxImageExtents == { <<4096, 4096>>, <<1920, 1080>> }

\* u32::clamp(self, min, max)
Clamp(x, min, max) == IF x < min THEN min ELSE IF x > max THEN max ELSE x

\* let extent = if capabilities.current_extent.width == u32::MAX { .. } else { .. };
ChosenExtent ==
    IF capabilities.current_extent[1] = U32_MAX
    THEN << Clamp(window_size[1], capabilities.min_image_extent[1],
                  capabilities.max_image_extent[1]),
            Clamp(window_size[2], capabilities.min_image_extent[2],
                  capabilities.max_image_extent[2]) >>
    ELSE capabilities.current_extent

\* get_physical_device_surface_capabilities(..)?, the choice of the extent,
\* and `if extent.width == 0 || extent.height == 0 { return Err(..) }`.
ChooseExtent ==
    /\ img_pc = "choose_extent"
    /\ \/ /\ extent' = ChosenExtent
          /\ img_pc' = IF extent'[1] = 0 \/ extent'[2] = 0
                       THEN "invalid_extent" ELSE "create_storage_image"
       \/ /\ img_pc' = "failed"
          /\ UNCHANGED extent
    /\ UNCHANGED <<capabilities, window_size, storage_image, swapchain_extent,
                   recorded, layoutVars, notImageVars>>

\* create_image(&ctx, extent.width, extent.height, format, STORAGE | TRANSFER_SRC)?
\* with initial_layout UNDEFINED.
CreateStorageImage ==
    /\ img_pc = "create_storage_image"
    /\ \/ /\ storage_image' = extent
          /\ storage_layout' = "UNDEFINED"
          /\ img_pc' = "setup_barrier"
       \/ /\ img_pc' = "failed"
          /\ UNCHANGED <<storage_image, storage_layout>>
    /\ UNCHANGED <<capabilities, window_size, extent, swapchain_extent, recorded,
                   swapchain_layouts, notImageVars>>

\* begin_single_time_command; barrier UNDEFINED -> GENERAL on the storage
\* image; end_single_time_command (submit, queue_wait_idle).  The helpers
\* unwrap every result.
SetupBarrier ==
    /\ img_pc = "setup_barrier"
    /\ \/ /\ storage_layout' = "GENERAL"
          /\ img_pc' = "create_swapchain"
       \/ /\ img_pc' = "panicked"
          /\ UNCHANGED storage_layout
    /\ UNCHANGED <<capabilities, window_size, extent, storage_image,
                   swapchain_extent, recorded, swapchain_layouts, notImageVars>>

\* create_swapchain(&SwapchainCreateInfoKHR { image_extent: extent, .. })?
\* get_swapchain_images(swapchain)?
CreateSwapchain ==
    /\ img_pc = "create_swapchain"
    /\ \/ /\ swapchain_extent' = extent
          /\ swapchain_layouts' = [i \in Images |-> "UNDEFINED"]
          /\ img_pc' = "ready"
       \/ /\ img_pc' = "failed"
          /\ UNCHANGED <<swapchain_extent, swapchain_layouts>>
    /\ UNCHANGED <<capabilities, window_size, extent, storage_image, recorded,
                   storage_layout, notImageVars>>

\* The recording of the first frame after the setup.
RecordFrame ==
    /\ img_pc = "ready"
    /\ \E image \in Images : recorded' = FrameCommands(image)
    /\ img_pc' = "recorded"
    /\ UNCHANGED <<capabilities, window_size, extent, storage_image,
                   swapchain_extent, layoutVars, notImageVars>>

(***************************************************************************)
(* Initial states and specifications.                                      *)
(***************************************************************************)
\* State after Renderer::new.  The setup builds every acceleration structure
\* with command_buffers[0], submitted ONE_TIME_SUBMIT and followed by
\* queue_wait_idle: slot 0 is left retired (invalid), slot 1 untouched.
\* Fences are created SIGNALED, current_frame is 0.
FrameStart ==
    /\ pc = "idle"
    /\ loop = "running"
    /\ result = "none"
    /\ current_frame = 0
    /\ call_slot = 0
    /\ acquire_result = "none"
    /\ image_index = -1
    /\ present_result = "none"
    /\ failed = "none"
    /\ ops = <<>>
    /\ in_flight_fences = [i \in Slots |-> TRUE]
    /\ command_buffers = [i \in Slots |-> IF i = 0 THEN "invalid" ELSE "initial"]
    /\ uniform_buffer = 0
    /\ gpu_queue = <<>>
    /\ used = <<>>
    /\ image_available = [i \in Slots |-> 0]
    /\ render_finished = [i \in Slots |-> 0]
    /\ present_queue = <<>>
    /\ frame_log = <<>>

\* The parts a specification does not run stay at these values.
SbtIdle ==
    /\ sbt_pc = "idle"
    /\ handle_size = 32
    /\ handle_seed = 0
    /\ sbt_addr = 0
    /\ handles = <<>>
    /\ sbt_data = <<>>
    /\ sbt_memory = <<>>
    /\ sbt_regions = <<>>

DeviceIdle ==
    /\ dev_pc = "idle"
    /\ pdevices = <<>>
    /\ dev_i = 1
    /\ scored_devices = <<>>
    /\ physical_device = 0
    /\ queue_family_index = -1

MemIdle ==
    /\ mem_pc = "idle"
    /\ memory_types = <<>>
    /\ request = [resource |-> "none", properties |-> {}]
    /\ type_filter = 0
    /\ mem_type_index = -1
    /\ allocated = -1
    /\ mem_error = "none"

SceneIdle ==
    /\ scene_pc = "idle"
    /\ scene_meshes = <<>>
    /\ scene_objects = <<>>
    /\ blas_list = <<>>
    /\ cur_v = 0
    /\ cur_i = 0
    /\ instances = <<>>
    /\ scene_error = "none"
    /\ vertex_addr = 0
    /\ index_addr = 0
    /\ scene_descs = <<>>
    /\ setup_queue = <<>>
    /\ built = {}

\* let camera = Camera::new(); let settings = Vec4::new(1.0, 1.0, 1.0, 1.0);
\* Camera::new puts the position at (0, 2, 10), speed 0.1.
InputStart ==
    /\ settings = <<1, 1, 1, 1>>
    /\ camera = <<0, 20, 100>>
    /\ held = {}
    /\ events = <<>>

\* The images as set up for a surface of 1280 x 720 pixels: storage image in
\* GENERAL, swapchain images as created.
ImagesReady ==
    /\ img_pc = "ready"
    /\ capabilities = [current_extent |-> <<1280, 720>>,
                       min_image_extent |-> <<1, 1>>,
                       max_image_extent |-> <<4096, 4096>>]
    /\ window_size = <<1280, 720>>
    /\ extent = <<1280, 720>>
    /\ storage_image = <<1280, 720>>
    /\ swapchain_extent = <<1280, 720>>
    /\ recorded = <<>>
    /\ storage_layout = "GENERAL"
    /\ swapchain_layouts = [i \in Images |-> "UNDEFINED"]

\* The render loop does not read the variables of the setup parts.
InitFrame ==
    /\ FrameStart
    /\ SbtIdle
    /\ DeviceIdle
    /\ MemIdle
    /\ SceneIdle
    /\ InputStart
    /\ ImagesReady

NextFrameLoop ==
    \/ RedrawRequested
    \/ WaitForFences
    \/ AcquireNextImage
    \/ ResetFences
    \/ ResetCommandBuffer
    \/ UploadData
    \/ BeginCommandBuffer
    \/ EndCommandBuffer
    \/ QueueSubmit
    \/ QueuePresent
    \/ GpuStart
    \/ GpuExecute
    \/ GpuFinish
    \/ PresentWait

SpecFrame == InitFrame /\ [][NextFrameLoop]_vars

\* The frame loop with its scheduling: the single control thread runs a
\* render call on, step by step, whenever the step can be taken without a
\* failure (a failing Vulkan call is possible, never bound to happen); the
\* GPU goes on with the work submitted to it, and the presentation engine
\* with the requests queued.
NoFailure == result # "Err" /\ pc # "panicked"
RenderFairness ==
    /\ WF_vars(WaitForFences /\ NoFailure')
    /\ WF_vars(AcquireNextImage /\ NoFailure')
    /\ WF_vars(ResetFences /\ NoFailure')
    /\ WF_vars(ResetCommandBuffer /\ NoFailure')
    /\ WF_vars(UploadData /\ NoFailure')
    /\ WF_vars(BeginCommandBuffer /\ NoFailure')
    /\ WF_vars(EndCommandBuffer /\ NoFailure')
    /\ WF_vars(QueueSubmit /\ NoFailure')
    /\ WF_vars(QueuePresent /\ NoFailure')
GpuFairness ==
    /\ WF_vars(GpuStart)
    /\ WF_vars(GpuExecute)
    /\ WF_vars(GpuFinish)
    /\ WF_vars(PresentWait)
SpecFrameLive ==
    InitFrame /\ [][NextFrameLoop]_vars /\ RenderFairness /\ GpuFairness

\* State of Renderer::new on reaching "6. SBT": the pipeline exists, the
\* device has fixed its handle size and the handles of the four groups.
InitSBT ==
    /\ FrameStart
    /\ sbt_pc = "create_buffer"
    /\ handle_size \in HandleSizes
    /\ handle_seed \in 0 .. MaxSeed
    /\ sbt_addr = 0
    /\ handles = <<>>
    /\ sbt_data = <<>>
    /\ sbt_memory = <<>>
    /\ sbt_regions = <<>>
    /\ DeviceIdle
    /\ MemIdle
    /\ SceneIdle
    /\ InputStart
    /\ ImagesReady

NextSBT ==
    \/ CreateSbtBuffer
    \/ GetHandles
    \/ CopyGen
    \/ CopyMiss0
    \/ CopyMiss1
    \/ CopyHit
    \/ UploadSbt
    \/ MakeRegions

SpecSBT == InitSBT /\ [][NextSBT]_vars

\* State of VulkanContext::new once enumerate_physical_devices has returned.
InitDevice ==
    /\ FrameStart
    /\ SbtIdle
    /\ dev_pc = "score"
    /\ pdevices \in DeviceLists(MaxDevices)
    /\ dev_i = 1
    /\ scored_devices = <<>>
    /\ physical_device = 0
    /\ queue_family_index = -1
    /\ MemIdle
    /\ SceneIdle
    /\ InputStart
    /\ ImagesReady

NextDevice ==
    \/ ScoreDevice
    \/ SelectDevice

SpecDevice == InitDevice /\ [][NextDevice]_vars

\* Entry to create_buffer_with_addr or create_image on a device with at least
\* one memory type.
InitMem ==
    /\ FrameStart
    /\ SbtIdle
    /\ DeviceIdle
    /\ mem_pc = "create"
    /\ \E n \in 1 .. MaxMemTypes : memory_types \in MemoryTypeLists(n)
    /\ request \in Requests
    /\ type_filter = 0
    /\ mem_type_index = -1
    /\ allocated = -1
    /\ mem_error = "none"
    /\ SceneIdle
    /\ InputStart
    /\ ImagesReady

NextMem ==
    \/ CreateResource
    \/ FindMemoryType
    \/ AllocateMemory
    \/ BindMemory

SpecMem == InitMem /\ [][NextMem]_vars

\* State of Renderer::new on reaching "1. Create Buffers (Scene)": the scene
\* is made, no buffer exists, nothing is built yet.
InitScene ==
    /\ FrameStart
    /\ SbtIdle
    /\ DeviceIdle
    /\ MemIdle
    /\ scene_pc = "create_scene_buffers"
    /\ \E n \in 1 .. MaxMeshes : scene_meshes \in MeshLists(n)
    /\ \E n \in 1 .. MaxObjects : scene_objects \in ObjectLists(n, Len(scene_meshes))
    /\ blas_list = <<>>
    /\ cur_v = 0
    /\ cur_i = 0
    /\ instances = <<>>
    /\ scene_error = "none"
    /\ vertex_addr = 0
    /\ index_addr = 0
    /\ scene_descs = <<>>
    /\ setup_queue = <<>>
    /\ built = {}
    /\ InputStart
    /\ ImagesReady

NextScene ==
    \/ CreateSceneBuffers
    \/ UploadScene
    \/ CreateSceneDescBuffer
    \/ MakeSceneDesc
    \/ UploadSceneDescs
    \/ BuildBlas
    \/ GpuBuild
    \/ BlasWaitIdle
    \/ MakeInstance
    \/ UploadInstances
    \/ BuildTlas
    \/ TlasWaitIdle
    \/ MainReturnsErr

SpecScene == InitScene /\ [][NextScene]_vars

\* The event loop after Renderer::new, no key down.
InitInput ==
    /\ FrameStart
    /\ SbtIdle
    /\ DeviceIdle
    /\ MemIdle
    /\ SceneIdle
    /\ InputStart
    /\ ImagesReady

NextInput ==
    \/ KeyPressed
    \/ KeyRepeated
    \/ KeyReleased
    \/ Resized

SpecInput == InitInput /\ [][NextInput]_vars

\* State of Renderer::new on reaching "4. Images & Swapchain": no image
\* exists yet; the surface and the window have the sizes they report.
InitImages ==
    /\ FrameStart
    /\ SbtIdle
    /\ DeviceIdle
    /\ MemIdle
    /\ SceneIdle
    /\ InputStart
    /\ img_pc = "choose_extent"
    /\ capabilities \in [current_extent : SurfaceExtents,
                         min_image_extent : MinImageExtents,
                         max_image_extent : MaxImageExtents]
    /\ window_size \in InnerSizes
    /\ extent = <<0, 0>>
    /\ storage_image = <<0, 0>>
    /\ swapchain_extent = <<0, 0>>
    /\ recorded = <<>>
    /\ storage_layout = "none"
    /\ swapchain_layouts = [i \in Images |-> "none"]

NextImages ==
    \/ ChooseExtent
    \/ CreateStorageImage
    \/ SetupBarrier
    \/ CreateSwapchain
    \/ RecordFrame

SpecImages == InitImages /\ [][NextImages]_vars

(***************************************************************************)
(* Properties of the render loop (checked under SpecFrame).                *)
(***************************************************************************)
\* Submissions in the queue that execute command buffer i.
PendingOn(i) == {k \in 1 .. Len(gpu_queue) : gpu_queue[k].cmd = i}
\* The positions of render between the fence reset and the submission, where
\* the CPU resets, re-records and hands over the slot's command buffer.
RecordingPhase ==
    {"reset_command_buffer", "upload_data", "begin_command_buffer",
     "end_command_buffer", "queue_submit"}
\* The last render call has ended (returned, or unwound by a panic).
CallEnded == (pc = "idle" /\ result # "none") \/ pc = "panicked"

\* C1: the command buffer of slot i is never reset or re-recorded while a
\* submission of it is pending on the GPU: a signaled fence i means that no
\* submission of command buffer i is in the queue, every call that resets the
\* command buffer has waited on the fence first, and from the reset to the
\* submission the slot's command buffer has no submission in the queue.
C1_NoResetWhilePending ==
    /\ \A i \in Slots : in_flight_fences[i] => PendingOn(i) = {}
    /\ \A k \in 1 .. Len(ops) :
          ops[k] = "reset_command_buffer" =>
              \E j \in 1 .. (k - 1) : ops[j] = "wait_for_fences"
    /\ pc \in RecordingPhase =>
          /\ PendingOn(current_frame) = {}
          /\ command_buffers[current_frame] # "pending"

\* C1 witness: the third frame is about to reset command buffer 0 for its
\* second use while the GPU still executes the previous frame (slot 1).
C1_Witness ==
    /\ pc = "reset_command_buffer"
    /\ Len(used) = 3
    /\ current_frame = 0
    /\ Len(gpu_queue) = 1
    /\ gpu_queue[1].phase = "executing"

\* C2 as stated: current_frame is 0 or 1, one slot is used per call, and
\* every call that got past acquisition ends with current_frame advanced to
\* (slot + 1) mod 2, the slots of successive frames being 0, 1, 0, 1, ...
C2_EveryCallPastAcquisitionAdvances ==
    /\ current_frame \in Slots
    /\ \A k \in 1 .. Len(used) : used[k] = (k - 1) % 2
    /\ (CallEnded /\ acquire_result = "ok") =>
          current_frame = (call_slot + 1) % 2

\* C2 as amended: current_frame is 0 or 1; while a call runs current_frame is
\* the slot it entered with; a call that returns Ok without having been
\* aborted at acquisition has advanced current_frame to (slot + 1) mod 2, and
\* every other call (aborted, failed) leaves it unchanged; the slots of the
\* successive frames past acquisition are 0, 1, 0, 1, ...
C2_SlotCycles ==
    /\ current_frame \in Slots
    /\ \A k \in 1 .. Len(used) : used[k] = (k - 1) % 2
    /\ ~CallEnded => current_frame = call_slot
    /\ (CallEnded /\ result = "Ok" /\ acquire_result = "ok") =>
          current_frame = (call_slot + 1) % 2
    /\ (CallEnded /\ ~(result = "Ok" /\ acquire_result = "ok")) =>
          current_frame = call_slot

\* C2 witness: the third frame has returned Ok and handed over to slot 1.
C2_Witness ==
    /\ pc = "idle"
    /\ result = "Ok"
    /\ acquire_result = "ok"
    /\ Len(used) = 3
    /\ call_slot = 0
    /\ current_frame = 1

\* C3: at most max_frames (2) frames are submitted and not yet retired with
\* their fence signaled.
FramesInFlight == Len(gpu_queue)
C3_AtMostTwoInFlight == FramesInFlight <= max_frames

\* C3 witness: two frames are in flight and the CPU has entered the next call.
C3_Witness ==
    /\ FramesInFlight = 2
    /\ pc = "wait_for_fences"
    /\ \A i \in Slots : ~in_flight_fences[i]

\* C4: the CPU never writes the uniform buffer while a submitted frame that
\* reads it is executing on the GPU.
GpuExecuting == \E k \in 1 .. Len(gpu_queue) : gpu_queue[k].phase = "executing"
C4_UniformWriteExcluded ==
    [][(pc = "upload_data" /\ uniform_buffer' # uniform_buffer) => ~GpuExecuting]_vars

\* C5: a call whose acquire_next_image reported out-of-date has returned Ok
\* having performed only the fence wait and the acquire: the slot's fence is
\* still signaled, its command buffer is neither reset nor recorded nor
\* submitted, the event loop keeps running and current_frame is unchanged.
C5_AcquireOutOfDateAborts ==
    (pc = "idle" /\ acquire_result = "out_of_date") =>
        /\ result = "Ok"
        /\ loop = "running"
        /\ failed = "none"
        /\ ops = <<"wait_for_fences", "acquire_next_image">>
        /\ present_result = "none"
        /\ current_frame = call_slot
        /\ in_flight_fences[call_slot]
        /\ PendingOn(call_slot) = {}
        /\ command_buffers[call_slot] \in {"initial", "invalid"}

\* C5 witness: an aborted call on slot 1 while the first frame is in flight.
C5_Witness ==
    /\ pc = "idle"
    /\ acquire_result = "out_of_date"
    /\ call_slot = 1
    /\ Len(gpu_queue) = 1

\* C6: a call whose queue_present reported out-of-date has returned Ok, the
\* event loop keeps running, current_frame has advanced, and the slot's fence
\* is signaled or the submission that will signal it is in the queue.
C6_PresentOutOfDateCompletes ==
    (pc = "idle" /\ present_result = "out_of_date") =>
        /\ result = "Ok"
        /\ loop = "running"
        /\ failed = "none"
        /\ current_frame = (call_slot + 1) % 2
        /\ \/ in_flight_fences[call_slot]
           \/ \E k \in 1 .. Len(gpu_queue) : gpu_queue[k].fence = call_slot

\* C6 witness: after an out-of-date presentation of the second frame the GPU
\* has retired the frame and signaled its fence.
C6_Witness ==
    /\ pc = "idle"
    /\ present_result = "out_of_date"
    /\ call_slot = 1
    /\ in_flight_fences[1]
    /\ gpu_queue = <<>>

\* C7: a failure of any Vulkan call of the frame, other than the two
\* out-of-date results, makes render return Err, and once render has returned
\* Err the event loop has exited and render is not running.
C7_FailureReturnsErr ==
    /\ failed # "none" => (pc = "idle" /\ result = "Err" /\ loop = "exited")
    /\ result = "Err" => (pc = "idle" /\ loop = "exited")

\* C8: the caller can tell a call that met an out-of-date surface from a
\* normally rendered frame: what render hands back (its return value and the
\* public current_frame) differs from the Ok and the advanced slot index of a
\* frame that was rendered and presented.
C8_OutOfDateObservable ==
    (pc = "idle" /\ (acquire_result = "out_of_date" \/ present_result = "out_of_date")) =>
        <<result, current_frame>> # <<"Ok", (call_slot + 1) % 2>>

(***************************************************************************)
(* Properties of the shader binding table (checked under SpecSBT).         *)
(***************************************************************************)
\* C9: for a handle size of 32 bytes, once the table is built the generation
\* region holds the handle of group 0, the miss region the handles of group 1
\* and then group 3, the hit region the handle of group 2, the callable
\* region is empty, and the three non-empty regions are pairwise disjoint and
\* cover exactly the 128 bytes of the buffer.
C9_SbtLayout32 ==
    (sbt_pc = "done" /\ handle_size = 32) =>
        /\ Len(sbt_memory) = 128
        /\ RegionRecords(1) = 1
        /\ RegionRecords(2) = 2
        /\ RegionRecords(3) = 1
        /\ RegionRecord(1, 0) = DeviceHandle(0)
        /\ RegionRecord(2, 0) = DeviceHandle(1)
        /\ RegionRecord(2, 1) = DeviceHandle(3)
        /\ RegionRecord(3, 0) = DeviceHandle(2)
        /\ sbt_regions[4].size = 0
        /\ RegionBytes(4) = {}
        /\ \A r1, r2 \in 1 .. 3 : r1 # r2 => RegionBytes(r1) \cap RegionBytes(r2) = {}
        /\ RegionBytes(1) \cup RegionBytes(2) \cup RegionBytes(3)
              = {sbt_addr + o : o \in 0 .. 127}

\* C9 witness: the table is built on a device with 32-byte handles, and the
\* shadow-miss handle (group 3) sits in bytes 64..95 of the buffer.
C9_Witness ==
    /\ sbt_pc = "done"
    /\ handle_size = 32
    /\ handle_seed = 1
    /\ MemoryAt(sbt_addr + 64, 32) = DeviceHandle(3)
    /\ DeviceHandle(3) # DeviceHandle(2)

\* C10: whatever handle size the device reports, once the table is built the
\* bytes fetched per group, the stride of the three non-empty regions and the
\* offsets of the records in the buffer equal that handle size, the regions
\* holding 1, 2 and 1 records.
C10_RecordsMatchDeviceHandleSize ==
    sbt_pc = "done" =>
        /\ HandlesDataSize \div group_count = handle_size
        /\ \A r \in 1 .. 3 : sbt_regions[r].stride = handle_size
        /\ sbt_regions[1].size = 1 * handle_size
        /\ sbt_regions[2].size = 2 * handle_size
        /\ sbt_regions[3].size = 1 * handle_size
        /\ sbt_regions[1].device_address = sbt_addr
        /\ sbt_regions[2].device_address = sbt_addr + 1 * handle_size
        /\ sbt_regions[3].device_address = sbt_addr + 3 * handle_size

(***************************************************************************)
(* Properties of the device selection (checked under SpecDevice).          *)
(***************************************************************************)
\* A device the renderer can run on: one of its queue families supports
\* graphics, compute and presentation, and it offers the five extensions.
Suitable(d) ==
    /\ \E i \in 1 .. Len(d.queue_families) :
          /\ "GRAPHICS" \in d.queue_families[i].queue_flags
          /\ "COMPUTE" \in d.queue_families[i].queue_flags
          /\ d.queue_families[i].present
    /\ "VK_KHR_swapchain" \in d.exts
    /\ "VK_KHR_acceleration_structure" \in d.exts
    /\ "VK_KHR_ray_tracing_pipeline" \in d.exts
    /\ "VK_KHR_deferred_host_operations" \in d.exts
    /\ "VK_KHR_buffer_device_address" \in d.exts
SuitableDiscrete ==
    {i \in 1 .. Len(pdevices) :
        Suitable(pdevices[i]) /\ pdevices[i].device_type = "DISCRETE_GPU"}
\* Device-local memory of a device, in the whole GiB of each of its heaps.
DeviceLocalGiB(d) ==
    LET local == {i \in 1 .. Len(d.heaps) : "DEVICE_LOCAL" \in d.heaps[i].flags}
        sum[S \in SUBSET local] ==
            IF S = {} THEN 0
            ELSE LET i == CHOOSE i \in S : TRUE
                 IN  d.heaps[i].size \div GiB + sum[S \ {i}]
    IN  sum[local]

\* C11: whenever the device list holds a suitable discrete GPU, whatever the
\* heap sizes, the selected device is a discrete GPU, and no suitable discrete
\* GPU has more device-local memory than the selected one.
C11_DiscreteGpuSelected ==
    (dev_pc = "selected" /\ SuitableDiscrete # {}) =>
        /\ pdevices[physical_device].device_type = "DISCRETE_GPU"
        /\ \A i \in SuitableDiscrete :
              DeviceLocalGiB(pdevices[i]) <= DeviceLocalGiB(pdevices[physical_device])

\* C12: the selection ends, once every device has been looked at, with the
\* no-suitable-device error exactly when no device of the list is suitable;
\* otherwise it selects a device of the list that offers the five extensions
\* and a queue family of that device that supports graphics, compute and
\* presentation.
C12_FailsIffNoneSuitable ==
    /\ dev_pc = "no_suitable_gpu" =>
          /\ \A i \in 1 .. Len(pdevices) : ~Suitable(pdevices[i])
          /\ physical_device = 0
    /\ dev_pc = "selected" =>
          /\ \E i \in 1 .. Len(pdevices) : Suitable(pdevices[i])
          /\ physical_device \in 1 .. Len(pdevices)
          /\ Suitable(pdevices[physical_device])
          /\ queue_family_index \in 0 .. (Len(pdevices[physical_device].queue_families) - 1)
          /\ LET q == pdevices[physical_device].queue_families[queue_family_index + 1]
             IN  {"GRAPHICS", "COMPUTE"} \subseteq q.queue_flags /\ q.present
    /\ dev_pc \in {"score", "selected", "no_suitable_gpu"}
    /\ (dev_pc = "score" /\ scored_devices = <<>>) =>
          \A i \in 1 .. (dev_i - 1) : ~Suitable(pdevices[i])

\* C12 witness: the first device lacks one of the five extensions, and the
\* second is selected with its second queue family, the first one that suits.
C12_Witness ==
    /\ dev_pc = "selected"
    /\ Len(pdevices) = 2
    /\ "VK_KHR_deferred_host_operations" \notin pdevices[1].exts
    /\ physical_device = 2
    /\ queue_family_index = 1

(***************************************************************************)
(* Properties of the memory type selection (checked under SpecMem).        *)
(***************************************************************************)
\* Memory types (0-based) the resource may live in that carry every
\* requested property.
MatchingTypes ==
    {i \in 0 .. (Len(memory_types) - 1) :
        /\ (type_filter \div Pow2(i)) % 2 = 1
        /\ request.properties \subseteq memory_types[i + 1]}
PastFind == mem_pc \in {"allocate_memory", "bind_memory", "created", "failed"}

\* C13: whenever at least one memory type has its bit set in the requirement
\* bitmask and carries all requested properties, find_memory_type returns the
\* index of such a type (and not the error).
C13_FindReturnsMatchingType ==
    (PastFind /\ mem_error # "create" /\ MatchingTypes # {}) =>
        /\ mem_error # "Failed to find suitable memory type"
        /\ mem_type_index \in MatchingTypes

\* C13 witness: type 0 carries the properties but is excluded by the bitmask,
\* type 1 is allowed but lacks them, and the search returned type 2.
C13_Witness ==
    /\ mem_pc = "allocate_memory"
    /\ Len(memory_types) = 3
    /\ request.properties \subseteq memory_types[1]
    /\ type_filter = 6
    /\ ~(request.properties \subseteq memory_types[2])
    /\ mem_type_index = 2

\* C14: when no memory type matches, the constructor has failed with the
\* memory-type error without allocating; and memory is only ever allocated
\* from a matching type.
C14_NoMatchNoAllocation ==
    /\ (PastFind /\ mem_error # "create" /\ MatchingTypes = {}) =>
          /\ mem_pc = "failed"
          /\ mem_error = "Failed to find suitable memory type"
          /\ allocated = -1
    /\ allocated # -1 => allocated \in MatchingTypes

\* C14 witness: create_image on a device whose allowed memory types are all
\* host memory has returned the error, nothing allocated.
C14_Witness ==
    /\ mem_pc = "failed"
    /\ request.resource = "image"
    /\ Len(memory_types) = 2
    /\ type_filter = 3
    /\ MatchingTypes = {}
    /\ mem_error = "Failed to find suitable memory type"
    /\ allocated = -1

(***************************************************************************)
(* Properties of the TLAS instance records (checked under SpecScene).      *)
(***************************************************************************)
\* The bottom-level structure that was built from mesh m (0-based).
BlasBuiltFor(m) == CHOOSE b \in {blas_list[j] : j \in 1 .. Len(blas_list)} : b.mesh = m
\* The custom index is the low 24 bits of instance_custom_index_and_mask.
CustomIndex(inst) == inst.instance_custom_index_and_mask.low_24
LowByte(n) == n % 256

SettingsBefore(i) == IF i = 1 THEN <<1, 1, 1, 1>> ELSE events[i - 1].settings
\* The i-th event is a Pressed event for a toggle key.
TogglePress(i) ==
    /\ events[i].event = "KeyboardInput"
    /\ events[i].state = "Pressed"
    /\ events[i].key \in ToggleKeys
\* The settings component a toggle key stands for.
Component(key) ==
    CASE key = "Digit1" -> 1
      [] key = "Digit2" -> 2
      [] key = "Digit3" -> 3
      [] key = "Digit4" -> 4

\* C16: two Pressed events for the same toggle key, with no Pressed event of
\* a toggle key between them, leave the settings vector (and with it the
\* key's own setting) equal to what it was before the first of the two.
C16_DoublePressRestores ==
    \A i, j \in 1 .. Len(events) :
        (/\ i < j
         /\ TogglePress(i)
         /\ TogglePress(j)
         /\ events[i].key = events[j].key
         /\ \A m \in (i + 1) .. (j - 1) : ~TogglePress(m))
        => events[j].settings = SettingsBefore(i)

\* C16 witness: with the second toggle off, the first toggle key was pressed,
\* released and pressed again.
C16_Witness ==
    /\ Len(events) = 4
    /\ events[1].key = "Digit2" /\ events[1].state = "Pressed"
    /\ events[2].key = "Digit1" /\ events[2].state = "Pressed"
    /\ events[3].key = "Digit1" /\ events[3].state = "Released"
    /\ events[4].key = "Digit1" /\ events[4].state = "Pressed"
    /\ events[2].settings = <<0, 0, 1, 1>>
    /\ settings = <<1, 0, 1, 1>>

\* C17: a toggle is flipped once per press edge and only then: the Pressed
\* event of a key going down flips the key's setting, and a Pressed event that
\* arrives while the key is still down (no release in between) leaves the
\* settings as they were.
C17_FlipOnlyOnPressEdge ==
    \A i \in 1 .. Len(events) :
        TogglePress(i) =>
            IF events[i].repeat
            THEN events[i].settings = SettingsBefore(i)
            ELSE events[i].settings =
                    [SettingsBefore(i) EXCEPT ![Component(events[i].key)] = 1 - @]

\* C18: a Resized event, whatever its size, leaves the renderer as it was:
\* swapchain and storage image (their extents and layouts), what render
\* records, frame slot index and the rest of the frame state, settings and
\* camera.
C18_ResizeChangesNothing ==
    [][(/\ Len(events') = Len(events) + 1
        /\ events'[Len(events')].event = "Resized")
       => /\ settings' = settings
          /\ camera' = camera
          /\ imageVars' = imageVars
          /\ layoutVars' = layoutVars
          /\ frameVars' = frameVars]_vars

\* C18 witness: a toggle was flipped, the camera moved, and then a Resized
\* event for 800 x 600 was handled with the images still at 1280 x 720.
C18_Witness ==
    /\ Len(events) = 3
    /\ events[3].event = "Resized"
    /\ events[3].size = <<800, 600>>
    /\ settings = <<0, 1, 1, 1>>
    /\ camera = <<0, 20, 99>>
    /\ storage_image = <<1280, 720>>
    /\ swapchain_extent = <<1280, 720>>

(***************************************************************************)
(* Properties of the image setup and the recorded frame (SpecImages).      *)
(***************************************************************************)
\* C19: whatever extent the setup chose, the trace-rays dispatch that render
\* records has the width and height of the storage image, and the blit's
\* source and destination extents are the storage image's width and height.
C19_DispatchMatchesRenderTarget ==
    img_pc = "recorded" =>
        \A n \in 1 .. Len(recorded) :
            /\ recorded[n].op = "trace_rays" =>
                  <<recorded[n].width, recorded[n].height>> = storage_image
            /\ recorded[n].op = "blit_image" =>
                  /\ recorded[n].src_extent = storage_image
                  /\ recorded[n].dst_extent = storage_image


\* The command a GpuExecute step executes, as <<k, n>>: the n-th command of
\* the k-th submission in the queue.
ExecutedNow(k, n) ==
    /\ k \in 1 .. Len(gpu_queue)
    /\ Len(gpu_queue') = Len(gpu_queue)
    /\ gpu_queue[k].done = n - 1
    /\ gpu_queue'[k].done = n

\* The layouts command c needs the images to be in when it executes.  A
\* barrier that declares UNDEFINED as old layout fits every layout.
LayoutsFit(c) ==
    CASE c.op = "trace_rays" -> storage_layout = "GENERAL"
      [] c.op = "blit_image" ->
            /\ LayoutOf(c.src_image) = c.src_layout
            /\ LayoutOf(c.dst_image) = c.dst_layout
      [] OTHER ->
            \A b \in 1 .. Len(c.barriers) :
                c.barriers[b].old_layout \in {"UNDEFINED", LayoutOf(c.barriers[b].image)}

\* C20: within a frame the images move through the layouts in which every
\* command finds them as it needs them: the storage image is GENERAL when the
\* rays are traced into it and TRANSFER_SRC_OPTIMAL when it is blitted, the
\* swapchain image is TRANSFER_DST_OPTIMAL when it is blitted to, and when the
\* frame retires the swapchain image is PRESENT_SRC_KHR, and the storage image
\* is GENERAL again after the frame's last command.
C20_LayoutsFitEveryCommand ==
    [][ /\ \A k \in 1 .. Len(gpu_queue) : \A n \in 1 .. CommandCount(k) :
              ExecutedNow(k, n) => LayoutsFit(CommandOf(k, n))
        /\ \A k \in 1 .. Len(gpu_queue) :
              ExecutedNow(k, CommandCount(k)) => storage_layout' = "GENERAL"
        /\ Len(gpu_queue') < Len(gpu_queue) =>
              swapchain_layouts[gpu_queue[1].image] = "PRESENT_SRC_KHR"
      ]_vars


(***************************************************************************)
(* Properties of the scene setup (checked under SpecScene).                *)
(***************************************************************************)
\* The build of the top-level structure has been submitted to the queue.
TlasSubmitted ==
    \/ \E k \in 1 .. Len(setup_queue) : setup_queue[k].ty = "TOP_LEVEL"
    \/ (Len(scene_meshes) + 1) \in built

\* C21: the TLAS build is submitted only after the build of every BLAS has
\* completed on the GPU; no build is recorded while another is still on the
\* queue, and at most one build is in flight at any time of the setup.
C21_TlasAfterEveryBlas ==
    /\ Len(setup_queue) <= 1
    /\ scene_pc \in {"build", "tlas"} => setup_queue = <<>>
    /\ TlasSubmitted => \A h \in 1 .. Len(scene_meshes) : h \in built

\* C21 witness: a scene of two meshes whose TLAS build is on the queue.
C21_Witness ==
    /\ Len(scene_meshes) = 2
    /\ Len(setup_queue) = 1
    /\ setup_queue[1].ty = "TOP_LEVEL"
    /\ built = {1, 2}


\* C22: every failure of a setup step, a failed memory map during upload and
\* a failed begin, end or submit of a build command included, is returned by
\* Renderer::new as an error value, which main then returns in its turn;
\* no failure leaves the setup by any other path.
C22_SetupFailureReturned ==
    scene_error # "none" => scene_pc \in {"failed", "main_returned_err"}


\* Total vertex, respectively index, count of the first n meshes.
RECURSIVE VerticesBefore(_)
VerticesBefore(n) ==
    IF n = 0 THEN 0 ELSE VerticesBefore(n - 1) + scene_meshes[n].vertices
RECURSIVE IndicesBefore(_)
IndicesBefore(n) ==
    IF n = 0 THEN 0 ELSE IndicesBefore(n - 1) + scene_meshes[n].indices

\* C25: the vertex and index addresses in the descriptor record of every
\* object are the base address plus the element size times the total vertex,
\* respectively index, count of the meshes before the object's mesh, and they
\* equal the addresses the BLAS build of that mesh read its geometry at.
C25_DescriptorMatchesBlas ==
    \A k \in 1 .. Len(scene_descs) :
        LET m == scene_objects[k].mesh_index
        IN  /\ scene_descs[k].vertex_addr = vertex_addr + VertexSize * VerticesBefore(m)
            /\ scene_descs[k].index_addr = index_addr + IndexSize * IndicesBefore(m)
            /\ m < Len(blas_list) =>
                  /\ blas_list[m + 1].mesh = m
                  /\ scene_descs[k].vertex_addr = blas_list[m + 1].vertex_data
                  /\ scene_descs[k].index_addr = blas_list[m + 1].index_data

\* C25 witness: two meshes, both built, and the descriptor of an object of
\* the second mesh, whose geometry does not start at the base addresses.
C25_Witness ==
    /\ Len(scene_meshes) = 2
    /\ Len(blas_list) = 2
    /\ Len(scene_descs) = Len(scene_objects)
    /\ scene_objects[1].mesh_index = 1
    /\ scene_descs[1].vertex_addr = blas_list[2].vertex_data
    /\ scene_descs[1].vertex_addr > vertex_addr
    /\ scene_descs[1].index_addr > index_addr


\* The element of the 4x4 matrix m at row r, column c (both from 0): the r-th
\* component of its c-th column vector.
Element(m, r, c) ==
    LET axis == CASE c = 0 -> m.x_axis
                  [] c = 1 -> m.y_axis
                  [] c = 2 -> m.z_axis
                  [] c = 3 -> m.w_axis
    IN  axis[r + 1]

\* C27: the transform of the k-th instance record has 12 entries, the first
\* three rows of the k-th object's world matrix in row-major order: entry
\* 4 * r + c is the element at row r, column c; the fourth row is dropped.
C27_TransformRowMajor ==
    \A k \in 1 .. Len(instances) :
        /\ Len(instances[k].transform) = 12
        /\ \A r \in 0 .. 2 : \A c \in 0 .. 3 :
              instances[k].transform[4 * r + c + 1]
                  = Element(scene_objects[k].transform, r, c)

\* C27 witness: the instance record of an object with the affine matrix,
\* whose rows read 11 12 13 14, 21 22 23 24, 31 32 33 34.
C27_Witness ==
    /\ Len(instances) >= 1
    /\ scene_objects[1].transform = Affine
    /\ instances[1].transform = <<11, 12, 13, 14, 21, 22, 23, 24, 31, 32, 33, 34>>


(***************************************************************************)
(* Further properties of the device selection (checked under SpecDevice).  *)
(***************************************************************************)
\* The devices of the list that satisfy the queue and extension requirements.
SuitableDevices == {i \in 1 .. Len(pdevices) : Suitable(pdevices[i])}
\* Class weight plus 1 per GiB of device-local heap.
ClaimedScore(d) ==
    (IF d.device_type = "DISCRETE_GPU" THEN 1000
     ELSE IF d.device_type = "INTEGRATED_GPU" THEN 500 ELSE 100)
    + DeviceLocalGiB(d)
\* The first queue family (from 0) of d with graphics, compute and present.
FirstSuitingFamily(d) ==
    (CHOOSE i \in 1 .. Len(d.queue_families) :
        /\ FamilySuits(d.queue_families[i])
        /\ \A j \in 1 .. (i - 1) : ~FamilySuits(d.queue_families[j])) - 1

\* C26: the selected device is a suitable one of maximal score, the earliest
\* in enumeration order of those with the maximal score, together with its
\* first suiting queue family; the selection is thereby a function of the
\* enumeration list.
C26_MaximalScoreEarliestFirst ==
    dev_pc = "selected" =>
        /\ physical_device \in SuitableDevices
        /\ \A i \in SuitableDevices :
              /\ ClaimedScore(pdevices[i]) <= ClaimedScore(pdevices[physical_device])
              /\ ClaimedScore(pdevices[i]) = ClaimedScore(pdevices[physical_device])
                    => physical_device <= i
        /\ queue_family_index = FirstSuitingFamily(pdevices[physical_device])

\* C26 witness: two different suitable devices of equal score, the first of
\* which is selected.
C26_Witness ==
    /\ dev_pc = "selected"
    /\ SuitableDevices = {1, 2}
    /\ pdevices[1] # pdevices[2]
    /\ ClaimedScore(pdevices[1]) = ClaimedScore(pdevices[2])
    /\ physical_device = 1


(***************************************************************************)
(* Further properties of the input handlers (checked under SpecInput).     *)
(***************************************************************************)
\* Number of Pressed events received so far for the key.
PressedCount(key) ==
    Cardinality({i \in 1 .. Len(events) :
                    /\ events[i].event = "KeyboardInput"
                    /\ events[i].state = "Pressed"
                    /\ events[i].key = key})
\* The key of the k-th settings component.
DigitKey(k) ==
    CASE k = 1 -> "Digit1"
      [] k = 2 -> "Digit2"
      [] k = 3 -> "Digit3"
      [] k = 4 -> "Digit4"

\* C30: every settings component is 0 or 1, component k being 1 exactly when
\* the number of Pressed events received so far for its digit key is even;
\* an event that is not a Pressed event of a digit key leaves the settings as
\* they were.
C30_SettingsFollowPressParity ==
    /\ \A k \in 1 .. 4 :
          /\ settings[k] \in {0, 1}
          /\ settings[k] = 1 <=> PressedCount(DigitKey(k)) % 2 = 0
    /\ \A i \in 1 .. Len(events) :
          ~TogglePress(i) => events[i].settings = SettingsBefore(i)

\* C30 witness: three Pressed events for Digit3 and its release, with another
\* key never pressed: the third toggle is off, the others on.
C30_Witness ==
    /\ Len(events) = 4
    /\ PressedCount("Digit3") = 3
    /\ events[4].state = "Released"
    /\ settings = <<1, 1, 0, 1>>


(***************************************************************************)
(* Further properties of the frame loop (checked under SpecFrame).         *)
(***************************************************************************)
\* The state of the per-frame state machine a position inside render stands
\* for.  Presenting is the call of queue_present, made from Submitted.
Phase(p) ==
    CASE p = "idle" -> "Idle"
      [] p \in {"wait_for_fences", "acquire_next_image"} -> "Acquiring"
      [] p \in {"reset_fences", "reset_command_buffer", "upload_data",
                "begin_command_buffer", "end_command_buffer", "queue_submit"}
            -> "Recording"
      [] p = "queue_present" -> "Submitted"
      [] OTHER -> "Panicked"
\* The Vulkan calls of a render call, in the order of the state machine.
RenderOrder ==
    <<"wait_for_fences", "acquire_next_image", "reset_fences",
      "reset_command_buffer", "upload_data", "begin_command_buffer",
      "end_command_buffer", "queue_submit", "queue_present">>
OpsInOrder == ops = SubSeq(RenderOrder, 1, Len(ops))
\* A step along Idle, Acquiring, Recording, Submitted, Presenting, Idle, or
\* from Acquiring back to Idle on an aborted frame.
OnThePath ==
    \/ Phase(pc) = Phase(pc')
    \/ Phase(pc) = "Idle" /\ Phase(pc') = "Acquiring"
    \/ Phase(pc) = "Acquiring" /\ Phase(pc') = "Recording" /\ acquire_result' = "ok"
    \/ /\ Phase(pc) = "Recording" /\ Phase(pc') = "Submitted"
       /\ command_buffers[current_frame] = "executable"
       /\ command_buffers'[current_frame] = "pending"
    \/ /\ Phase(pc) = "Submitted" /\ Phase(pc') = "Idle"
       /\ ops'[Len(ops')] = "queue_present"
    \/ /\ Phase(pc) = "Acquiring" /\ Phase(pc') = "Idle"
       /\ acquire_result' = "out_of_date" /\ result' = "Ok"
\* A step that leaves the path because a Vulkan call of the render call
\* failed: the error is returned and main stops the loop, or the failed map
\* of the uniform upload panics.
FailedOffThePath ==
    \/ /\ Phase(pc) \in {"Acquiring", "Recording"} /\ Phase(pc') = "Idle"
       /\ result' = "Err" /\ failed' # "none" /\ loop' = "exited"
    \/ /\ pc = "upload_data" /\ Phase(pc') = "Panicked"
       /\ failed' = "map_memory" /\ loop' = "exited"

\* C23 as stated: every render call moves through Idle, Acquiring, Recording,
\* Submitted, Presenting, Idle in that order, its Vulkan calls being made in
\* that order, and the only other path is Acquiring back to Idle on an
\* aborted frame.
C23_OnlyAbortLeavesThePath ==
    [][OnThePath /\ OpsInOrder']_vars

\* C23 as amended: every render call makes its Vulkan calls in the order of
\* the state machine and moves through Idle, Acquiring, Recording, Submitted,
\* Presenting, Idle; it leaves that path from Acquiring back to Idle on an
\* aborted frame, and, when one of its Vulkan calls fails, from Acquiring or
\* Recording to the end of the call, returning the error (main then stops
\* the loop) or, for the failed map of the uniform upload, panicking.
C23_PathOrFailure ==
    [][(OnThePath \/ FailedOffThePath) /\ OpsInOrder']_vars

\* C23 witness: the second frame got through recording and failed at
\* queue_submit, which returned the error from Recording.
C23_Witness ==
    /\ Len(used) = 2
    /\ pc = "idle"
    /\ result = "Err"
    /\ failed = "queue_submit"
    /\ ops = SubSeq(RenderOrder, 1, 7)


\* C24: in every frame past acquisition, using slot i, the submission waits
\* on image_available_semaphores[i], the semaphore given to the acquire of
\* that frame, and signals render_finished_semaphores[i] and
\* in_flight_fences[i]; the presentation of the frame waits on
\* render_finished_semaphores[i] and presents the image its acquire returned.
C24_FrameUsesItsSlotsSyncObjects ==
    /\ Len(frame_log) = Len(used)
    /\ \A n \in 1 .. Len(frame_log) :
          LET f == frame_log[n]
              i == used[n]
          IN  /\ f.acquire_semaphore = i
              /\ f.submit_wait \in {-1, i}
              /\ f.submit_signal \in {-1, i}
              /\ f.submit_fence \in {-1, i}
              /\ f.present_wait \in {-1, i}
              /\ f.present_image \in {-1, f.image}
              /\ f.present_wait # -1 => f.submit_wait # -1
    /\ \A k \in 1 .. Len(gpu_queue) :
          LET sub == gpu_queue[k]
          IN  /\ sub.wait = frame_log[sub.call].acquire_semaphore
              /\ sub.wait = used[sub.call]
              /\ sub.signal = used[sub.call]
              /\ sub.fence = used[sub.call]
    /\ \A k \in 1 .. Len(present_queue) :
          LET req == present_queue[k]
          IN  /\ req.wait = used[req.call]
              /\ req.image = frame_log[req.call].image
    /\ (pc = "idle" /\ result = "Ok" /\ acquire_result = "ok") =>
          /\ frame_log[Len(frame_log)].submit_wait = call_slot
          /\ frame_log[Len(frame_log)].present_wait = call_slot

\* C24 witness: three frames were submitted and presented, the second with
\* slot 1 and image 2, the third with slot 0 again.
C24_Witness ==
    /\ Len(frame_log) = 3
    /\ pc = "idle"
    /\ frame_log[2] = [acquire_semaphore |-> 1, image |-> 2,
                       submit_wait |-> 1, submit_signal |-> 1, submit_fence |-> 1,
                       present_wait |-> 1, present_image |-> 2]
    /\ frame_log[3].present_wait = 0
    /\ frame_log[3].present_image = frame_log[3].image


\* C29: whenever a signal operation is issued on a binary semaphore, by the
\* acquire on image_available_semaphores[i] or by the submission on
\* render_finished_semaphores[i], the previous signal of that semaphore has
\* been consumed by its wait: no semaphore holds two signals.
C29_NoSignalOnSignaledSemaphore ==
    \A i \in Slots :
        /\ image_available[i] <= 1
        /\ render_finished[i] <= 1


\* C28: with the GPU completing every submission (and the presentation
\* engine every request), and unless a fatal error ends it, every render call
\* returns: on entry to render the fence of the current slot is signaled or a
\* submission still in the queue will signal it, and so every call that has
\* been entered comes to its end.
C28_EveryCallReturns ==
    /\ [](pc = "wait_for_fences" =>
              \/ in_flight_fences[current_frame]
              \/ \E k \in 1 .. Len(gpu_queue) : gpu_queue[k].fence = current_frame)
    /\ (pc # "idle") ~> (pc = "idle" \/ pc = "panicked")

\* C28 witness: the fourth call is entered after a frame aborted at
\* acquisition, with the fence of its slot unsignaled and the frame that will
\* signal it still on the GPU.
C28_Witness ==
    /\ pc = "wait_for_fences"
    /\ Len(used) = 2
    /\ acquire_result = "none"
    /\ ~in_flight_fences[current_frame]
    /\ \E k \in 1 .. Len(gpu_queue) : gpu_queue[k].fence = current_frame

====
